---- MODULE Spec2Model ----
(***************************************************************************)
(* A model of src/src/solver.py (class Solver): the resumable training     *)
(* orchestrator.  Spec is the life of one experiment directory: the        *)
(* process is started (Solver.__init__ / _reset), runs train() epoch by    *)
(* epoch, persists with _serialize, may crash at any step and is started   *)
(* again on the same files.                                                *)
(***************************************************************************)
EXTENDS Integers, Sequences, FiniteSets, TLC

\* ------------------------------------------------------------- bounds
MaxEpochs == 2
MaxRuns == 2
MaxLoss == 1
MaxBatches == 1
MaxState == 1
MaxLossKinds == 2
MaxDiscs == 2
MaxReplicas == 2
MaxItems == 2
MaxStem == 2

\* None (best_loss = None, evaluation_loss = None, a key a record lacks)
None == -1

Losses == 0..MaxLoss

\* The total loss a training pass reports: it is only carried into the
\* epoch's record.
TrainLosses == {1}

EmptyMap == [x \in {} |-> 0]

GENERATOR_KEY == "generator"

\* ------------------------------------------------------ configuration
\* The fields of args that Solver.__init__ copies and train()/_reset read.
\* disc is the optimizer layout the three flags of lines 56-58 select.
Layouts == {"none", "single", "joint", "separate"}

adversarial_mode(a) == a.layout # "none"

multiple_discriminators_mode(a) == a.layout \in {"joint", "separate"}

joint_disc_optimizers(a) == a.layout = "joint"

\* The discriminator entries of the models dict handed to the constructor.
DiscNames(a) ==
    CASE a.layout = "none" -> {}
      [] a.layout = "single" -> {"msd"}
      [] OTHER -> {"mpd", "msd"}

ModelNames(a) == {GENERATOR_KEY} \cup DiscNames(a)

\* The optimizers dict handed to the constructor (lines 66-72): 'optimizer',
\* and in adversarial mode either the nested dict 'discriminator' (one
\* optimizer per discriminator) or the single 'disc_optimizer'.
TopOptimizerKeys(a) ==
    IF adversarial_mode(a) /\ ~(multiple_discriminators_mode(a) /\ ~joint_disc_optimizers(a))
    THEN {"optimizer", "disc_optimizer"}
    ELSE {"optimizer"}

NestedOptimizerKeys(a) ==
    IF adversarial_mode(a) /\ multiple_discriminators_mode(a) /\ ~joint_disc_optimizers(a)
    THEN DiscNames(a)
    ELSE {}

FreshModels(a) == [n \in ModelNames(a) |-> 0]

FreshOptimizers(a) ==
    [top |-> [k \in TopOptimizerKeys(a) |-> 0],
     discriminator |-> [n \in NestedOptimizerKeys(a) |-> 0]]

Configs ==
    [checkpoint : BOOLEAN,
     restart : BOOLEAN,
     continue_from : BOOLEAN,
     continue_best : BOOLEAN,
     keep_history : BOOLEAN,
     cross_valid : BOOLEAN,
     cross_valid_every : 1..3,
     eval_every : 1..3,
     cv_loader : BOOLEAN,
     tt_loader : BOOLEAN,
     valid_equals_test : BOOLEAN,
     evaluate_on_best : BOOLEAN,
     joint_evaluate_and_enhance : BOOLEAN,
     layout : Layouts]

\* Both loaders given, validation on its own set, evaluation of the live
\* generator by enhance + evaluate_on_saved_data, cadences of at most two.
PlainEpochs(a) ==
    /\ a.cv_loader /\ a.tt_loader
    /\ ~a.valid_equals_test /\ ~a.evaluate_on_best /\ ~a.joint_evaluate_and_enhance
    /\ a.cross_valid_every <= 2 /\ a.eval_every <= 2

\* ------------------------------------------------------------ metrics
\* One record of self.history: the dict `metrics` of train(), by key.
\*   total_loss            'total' + '_loss' of the training pass (line 235)
\*   evaluation_loss       METRICS_KEY_EVALUATION_LOSS (lines 235, 272-273)
\*   valid_evaluation_loss 'valid_' + 'evaluation' + '_loss' (line 260)
\*   best_loss             METRICS_KEY_BEST_LOSS (lines 275-276)
\*   lsd                   METRICS_KEY_LSD, with visqol (line 324)
MetricsRecord(total, evaluation_loss, valid, best_loss, lsd) ==
    [total_loss |-> total,
     \* {**losses, **valid_losses} carries the training pass's own
     \* 'evaluation_loss'; `if evaluation_loss:` overwrites it only when the
     \* validation loss is neither None nor 0.
     evaluation_loss |-> IF evaluation_loss # None /\ evaluation_loss # 0
                         THEN evaluation_loss ELSE total,
     valid_evaluation_loss |-> valid,
     \* `if best_loss:` drops the key when best_loss is None or 0.
     best_loss |-> IF best_loss # None /\ best_loss # 0 THEN best_loss ELSE None,
     lsd |-> lsd]

\* pull_metric(history, 'valid_evaluation_loss'): the values of that key,
\* in order, from the records that carry it.
RECURSIVE pull_metric(_)
pull_metric(h) ==
    IF h = <<>> THEN <<>>
    ELSE LET rest == pull_metric(Tail(h))
         IN IF Head(h).valid_evaluation_loss # None
            THEN <<Head(h).valid_evaluation_loss>> \o rest
            ELSE rest

SeqMin(s) == CHOOSE m \in {s[i] : i \in 1..Len(s)} : \A i \in 1..Len(s) : m <= s[i]

\* BestLoss forgetting the recorded losses.
BestLoss_Current(h, evaluation_loss) == evaluation_loss

\* BestLoss taking the largest loss.
BestLoss_Largest(h, evaluation_loss) ==
    LET s == pull_metric(h) \o <<evaluation_loss>>
    IN CHOOSE m \in {s[i] : i \in 1..Len(s)} : \A i \in 1..Len(s) : m >= s[i]

\* best_loss = min(pull_metric(self.history, 'valid_evaluation_loss') + [evaluation_loss])
BestLoss(h, evaluation_loss) == SeqMin(pull_metric(h) \o <<evaluation_loss>>)

\* `if evaluation_loss == best_loss:` a new snapshot is due.
IsNewBest(evaluation_loss, best) == evaluation_loss = best

\* src.utils.copy_state: an independent copy of a state dict.
copy_state(st) == st

\* _copy_models_states
CopyModelsStates(m) == [n \in DOMAIN m |-> copy_state(m[n])]

\* CrossValidDue without the final-epoch clause.
CrossValidDue_NoFinal(a, e) ==
    a.cross_valid /\ (e + 1) % a.cross_valid_every = 0 /\ a.cv_loader

\* The cadence test of lines 241-242; self.epochs is MaxEpochs.
CrossValidDue(a, e) ==
    a.cross_valid /\ ((e + 1) % a.cross_valid_every = 0 \/ e = MaxEpochs - 1) /\ a.cv_loader

\* The cadence test of line 280.
EvaluateDue(a, e) == ((e + 1) % a.eval_every = 0 \/ e = MaxEpochs - 1) /\ a.tt_loader

\* The enhance argument of line 250: `A or B and self.tt_loader` is
\* `A or (B and self.tt_loader)`.
EnhanceInCrossValid(a, e) ==
    (e + 1) % a.eval_every = 0 \/ (e = MaxEpochs - 1 /\ a.tt_loader)

\* src.utils.swap_state(model, state): the model holds `state` inside the
\* with block and its earlier parameters again once the block is left,
\* by return or by exception.
swap_state(model, state) == [entered |-> model, inside |-> state, left |-> model]

\* EvaluateSwap loading the state without the scope.
EvaluateSwap_Assign(a, m, bs) ==
    LET best_state == IF a.evaluate_on_best /\ bs # EmptyMap
                      THEN bs[GENERATOR_KEY] ELSE m[GENERATOR_KEY]
    IN [entered |-> m[GENERATOR_KEY], inside |-> best_state, left |-> best_state]

\* Lines 287-293: the best snapshot of the generator when evaluate_on_best
\* is set and best_states is not empty, the model's own state otherwise,
\* swapped in for the with block.
EvaluateSwap(a, m, bs) ==
    LET best_state == IF a.evaluate_on_best /\ bs # EmptyMap
                      THEN bs[GENERATOR_KEY] ELSE m[GENERATOR_KEY]
    IN swap_state(m[GENERATOR_KEY], best_state)

\* ------------------------------------------------- training one batch
\* Optimize stepping every model.
Optimize_EveryModel(st) ==
    [models |-> [n \in DOMAIN st.models |-> st.models[n] + 1],
     optimizers |-> [st.optimizers EXCEPT !.top["optimizer"] = @ + 1]]

\* _optimize: zero_grad, backward, step of the generator optimizer.
Optimize(st) ==
    [models |-> [st.models EXCEPT ![GENERATOR_KEY] = @ + 1],
     optimizers |-> [st.optimizers EXCEPT !.top["optimizer"] = @ + 1]]

\* The models whose parameters the loss term of a discriminator variant
\* reaches (the models its _get_*_adversarial_loss runs).
ModelsOf(name) ==
    CASE name = "hifi" -> {"mpd", "msd"}
      [] name = "stft" -> {"stft_disc"}
      [] OTHER -> {name}

\* The order in which _get_losses enters the variants' terms into
\* losses['discriminator'] (lines 516-563, 565-612).
DiscOrder == <<"melgan", "msd", "mpd", "hifi", "mbd", "spec", "stft">>

Stepped(m, names) ==
    [n \in DOMAIN m |->
       IF \E d \in names : n \in ModelsOf(d) THEN m[n] + 1 ELSE m[n]]

Ev(op, target) == [op |-> op, target |-> target]

\* SeparateSteps stepping only the first term's optimizer.
SeparateSteps_FirstOnly(r, todo) ==
    IF todo = <<>> THEN r
    ELSE [ok |-> TRUE,
          models |-> Stepped(r.models, {Head(todo)}),
          optimizers |-> [r.optimizers EXCEPT !.discriminator[Head(todo)] = @ + 1],
          events |-> r.events \o <<Ev("zero_grad", Head(todo)), Ev("backward", Head(todo)),
                                   Ev("step", Head(todo))>>]

\* SeparateSteps without the zero_grad of each optimizer.
RECURSIVE SeparateSteps_NoZeroGrad(_, _)
SeparateSteps_NoZeroGrad(r, todo) ==
    IF todo = <<>> THEN r
    ELSE SeparateSteps_NoZeroGrad(
           [ok |-> TRUE,
            models |-> Stepped(r.models, {Head(todo)}),
            optimizers |-> [r.optimizers EXCEPT !.discriminator[Head(todo)] = @ + 1],
            events |-> r.events \o <<Ev("backward", Head(todo)), Ev("step", Head(todo))>>],
           Tail(todo))

\* The separate policy's loop (lines 841-844) over the terms still to do.
RECURSIVE SeparateSteps(_, _)
SeparateSteps(r, todo) ==
    IF todo = <<>> \/ ~r.ok THEN r
    ELSE LET d == Head(todo)
         IN IF d \in DOMAIN r.optimizers.discriminator
            THEN SeparateSteps(
                   [ok |-> TRUE,
                    models |-> Stepped(r.models, {d}),
                    optimizers |-> [r.optimizers EXCEPT !.discriminator[d] = @ + 1],
                    events |-> r.events \o <<Ev("zero_grad", d), Ev("backward", d), Ev("step", d)>>],
                   Tail(todo))
            ELSE \* self.disc_optimizers[name]: KeyError
                 [r EXCEPT !.ok = FALSE]

\* OptimizeAdversarial without the zero_grad of the single or joint optimizer.
OptimizeAdversarial_NoZeroGrad(a, st, names) ==
    LET r0 == [ok |-> TRUE, models |-> st.models, optimizers |-> st.optimizers, events |-> <<>>]
    IN IF multiple_discriminators_mode(a)
       THEN IF joint_disc_optimizers(a)
            THEN \* sum([]) is the int 0, which has no backward()
                 IF names = {}
                 THEN [r0 EXCEPT !.ok = FALSE,
                                 !.events = <<Ev("zero_grad", "disc_optimizer")>>]
                 ELSE [ok |-> TRUE,
                       models |-> Stepped(st.models, names),
                       optimizers |-> [st.optimizers EXCEPT !.top["disc_optimizer"] = @ + 1],
                       events |-> <<Ev("backward", "sum"),
                                    Ev("step", "disc_optimizer")>>]
            ELSE SeparateSteps(r0, SelectSeq(DiscOrder, LAMBDA d : d \in names))
       ELSE \* list(discriminator_losses.values())[0]: IndexError when empty
            IF names = {}
            THEN [r0 EXCEPT !.ok = FALSE,
                            !.events = <<Ev("zero_grad", "disc_optimizer")>>]
            ELSE LET d == SelectSeq(DiscOrder, LAMBDA x : x \in names)[1]
                 IN [ok |-> TRUE,
                     models |-> Stepped(st.models, {d}),
                     optimizers |-> [st.optimizers EXCEPT !.top["disc_optimizer"] = @ + 1],
                     events |-> <<Ev("backward", d),
                                  Ev("step", "disc_optimizer")>>]

\* _optimize_adversarial(discriminator_losses), names being the keys of
\* the mapping: the optimizer calls it makes in order, the optimizer
\* states and the parameters it leaves.  ok is FALSE when the call raises.
OptimizeAdversarial(a, st, names) ==
    LET r0 == [ok |-> TRUE, models |-> st.models, optimizers |-> st.optimizers, events |-> <<>>]
    IN IF multiple_discriminators_mode(a)
       THEN IF joint_disc_optimizers(a)
            THEN \* sum([]) is the int 0, which has no backward()
                 IF names = {}
                 THEN [r0 EXCEPT !.ok = FALSE,
                                 !.events = <<Ev("zero_grad", "disc_optimizer")>>]
                 ELSE [ok |-> TRUE,
                       models |-> Stepped(st.models, names),
                       optimizers |-> [st.optimizers EXCEPT !.top["disc_optimizer"] = @ + 1],
                       events |-> <<Ev("zero_grad", "disc_optimizer"),
                                    Ev("backward", "sum"),
                                    Ev("step", "disc_optimizer")>>]
            ELSE SeparateSteps(r0, SelectSeq(DiscOrder, LAMBDA d : d \in names))
       ELSE \* list(discriminator_losses.values())[0]: IndexError when empty
            IF names = {}
            THEN [r0 EXCEPT !.ok = FALSE,
                            !.events = <<Ev("zero_grad", "disc_optimizer")>>]
            ELSE LET d == SelectSeq(DiscOrder, LAMBDA x : x \in names)[1]
                 IN [ok |-> TRUE,
                     models |-> Stepped(st.models, {d}),
                     optimizers |-> [st.optimizers EXCEPT !.top["disc_optimizer"] = @ + 1],
                     events |-> <<Ev("zero_grad", "disc_optimizer"),
                                  Ev("backward", d),
                                  Ev("step", "disc_optimizer")>>]

\* One batch of _run_one_epoch in training mode (lines 381-384).
TrainBatch(a, st) ==
    LET g == Optimize(st)
    IN IF adversarial_mode(a)
       THEN LET d == OptimizeAdversarial(a, g, DiscNames(a))
            IN [models |-> d.models, optimizers |-> d.optimizers]
       ELSE g

RECURSIVE TrainBatches(_, _, _)
TrainBatches(a, st, n) ==
    IF n = 0 THEN st ELSE TrainBatches(a, TrainBatch(a, st), n - 1)

\* RunOneEpochPass optimizing in cross validation as in training.
RunOneEpochPass_Optimizing(a, st, cross_valid) ==
    LET t == TrainBatches(a, st, MaxBatches)
    IN [models |-> t.models, optimizers |-> t.optimizers, optimized |-> MaxBatches]

\* _run_one_epoch(epoch, cross_valid) over the MaxBatches batches of its
\* loader: `if not cross_valid:` (line 380) guards both optimizer calls.
\* optimized is the number of batches on which they were made.
RunOneEpochPass(a, st, cross_valid) ==
    IF cross_valid
    THEN [models |-> st.models, optimizers |-> st.optimizers, optimized |-> 0]
    ELSE LET t == TrainBatches(a, st, MaxBatches)
         IN [models |-> t.models, optimizers |-> t.optimizers, optimized |-> MaxBatches]

\* _get_valid_losses_on_test_data (lines 414-478): the losses of every
\* batch are computed and summed, no optimizer is called.
GetValidLossesOnTestData(a, st) ==
    [models |-> st.models, optimizers |-> st.optimizers, optimized |-> 0]

\* The pass of the cross-validation block (lines 249-255).
CrossValidPass(a, st) ==
    IF a.valid_equals_test THEN GetValidLossesOnTestData(a, st)
    ELSE RunOneEpochPass(a, st, TRUE)

\* ------------------------------------------------------ serialization
\* src.utils.serialize_model: the package of one model; of its entries
\* the solver reads and writes 'state', a copy of the model's state dict.
serialize_model(st) == [state |-> copy_state(st)]

\* _serialize_models
SerializeModels(m) == [n \in DOMAIN m |-> serialize_model(m[n])]

\* SerializeOptimizers keeping only the generator's optimizer.
SerializeOptimizers_GeneratorOnly(a, o) ==
    [top |-> [k \in {"optimizer"} |-> o.top[k]],
     discriminator |-> EmptyMap]

\* _serialize_optimizers
SerializeOptimizers(a, o) ==
    IF multiple_discriminators_mode(a) /\ ~joint_disc_optimizers(a)
    THEN [top |-> [k \in {"optimizer"} |-> o.top[k]],
          discriminator |-> [n \in DOMAIN o.discriminator |-> o.discriminator[n]]]
    ELSE [top |-> [k \in DOMAIN o.top |-> o.top[k]],
          discriminator |-> EmptyMap]

\* The package _serialize builds (lines 145-150).
Package(a, m, o, h, b) ==
    [models |-> SerializeModels(m),
     optimizers |-> SerializeOptimizers(a, o),
     history |-> h,
     best_states |-> b,
     args |-> a]

\* _load(package, load_best) on a solver holding models m and optimizers o.
\* ok is FALSE when the call raises.
Load(a, m, o, pkg, load_best) ==
    IF load_best
    THEN \* package['best_states']['models'].items(): best_states is keyed by
         \* model name (line 266, _copy_models_states), so the lookup raises
         \* KeyError unless a model is itself named 'models'; and then the
         \* items are that snapshot's tensors by parameter name, which are
         \* neither model names nor packages with a 'state' entry.
         [ok |-> FALSE, models |-> m, optimizers |-> o]
    ELSE [ok |-> DOMAIN pkg.models \subseteq DOMAIN m
                 /\ DOMAIN pkg.optimizers.top \subseteq DOMAIN o.top
                 /\ DOMAIN pkg.optimizers.discriminator \subseteq DOMAIN o.discriminator,
          models |-> [n \in DOMAIN m |->
                        IF n \in DOMAIN pkg.models THEN pkg.models[n].state ELSE m[n]],
          optimizers |->
            IF multiple_discriminators_mode(a) /\ ~joint_disc_optimizers(a)
            THEN [top |-> [k \in DOMAIN o.top |->
                             IF k = "optimizer" THEN pkg.optimizers.top[k] ELSE o.top[k]],
                  discriminator |-> [n \in DOMAIN o.discriminator |->
                             IF n \in DOMAIN pkg.optimizers.discriminator
                             THEN pkg.optimizers.discriminator[n]
                             ELSE o.discriminator[n]]]
            ELSE [top |-> [k \in DOMAIN o.top |->
                             IF k \in DOMAIN pkg.optimizers.top
                             THEN pkg.optimizers.top[k] ELSE o.top[k]],
                  discriminator |-> o.discriminator]]

\* ------------------------------------------------------------- files
NoPackage == [models |-> EmptyMap,
              optimizers |-> [top |-> EmptyMap, discriminator |-> EmptyMap],
              history |-> <<>>,
              best_states |-> EmptyMap,
              args |-> EmptyMap]

Absent == [st |-> "absent", pkg |-> NoPackage]

Partial == [st |-> "partial", pkg |-> NoPackage]

Written(pkg) == [st |-> "complete", pkg |-> pkg]

\* The order in which a dict of the models is iterated (insertion order).
ModelOrder(a) ==
    CASE a.layout = "none" -> <<GENERATOR_KEY>>
      [] a.layout = "single" -> <<GENERATOR_KEY, "msd">>
      [] OTHER -> <<GENERATOR_KEY, "mpd", "msd">>

\* A checkpoint an earlier invocation with the same layout and cadence
\* wrote with _serialize after its first epoch, l being the loss of its
\* cross-validation where that was due: what args.continue_from names, and
\* what the canonical path may hold when the experiment begins.
EarlierPackage(a, l) ==
    LET m1 == TrainBatches(a, [models |-> FreshModels(a), optimizers |-> FreshOptimizers(a)], MaxBatches)
        cv == CrossValidDue(a, 0)
        ev == IF cv THEN l ELSE None
        bl == IF cv THEN BestLoss(<<>>, l) ELSE None
        r1 == MetricsRecord(1, ev, ev, bl, IF EvaluateDue(a, 0) THEN 1 ELSE None)
    IN Package(a, m1.models, m1.optimizers, <<r1>>,
               IF cv /\ IsNewBest(l, bl) THEN CopyModelsStates(m1.models) ELSE EmptyMap)

\* ----------------------------------------------------------- variables
VARIABLES
    args,           \* the configuration, fixed for the experiment
    checkpoint_file,\* the file at the canonical checkpoint path
    tmp_file,       \* the file at checkpoint_file + ".tmp"
    continue_file,  \* the file args.continue_from names
    history_file,   \* the file at args.history_file: [st, content]
    best_files,     \* model name -> the file <name>_<best_file.name>
    best_tmp,       \* model name -> that file's ".tmp"
    pc,             \* where the process is
    runs,           \* how many times the process was started
    models,         \* model name -> parameters (a version number)
    optimizers,     \* the optimizers' states (step counts)
    history,        \* self.history
    best_states,    \* self.best_states
    epoch,          \* the loop variable of train()
    best_loss,      \* train()'s local best_loss
    losses,         \* the training pass's total loss of this epoch
    evaluation_loss,\* train()'s local evaluation_loss
    lsd,            \* the test metrics of this epoch, None when not evaluated
    package,        \* _serialize's local package
    bi,             \* _serialize: position in the loop over best_states
    reset,          \* the locals of the last _reset, and what it found
    replayed,       \* the records the replay loop of train() logged
    started,        \* len(self.history) when train() entered its loop
    durable,        \* the history of the last completed canonical rename
    renames,        \* canonical renames completed by this process
    cvlog,          \* this run's cross-validated epochs: loss and live models
    live,           \* the models and optimizers handed to the last _serialize
    collab,         \* the collaborators __init__ created (attributes of self)
    out,            \* the LossResult of the batch: the keys of both mappings
    events,         \* the optimizer calls of the batch, in order
    fail,           \* where the process raised, "" while it has not
    trail,          \* the calls of the batch in order, each with the parameters it found
    epoch_log,      \* the epochs this train() ran, the phases of the current one and what its passes over the test set did
    replicas,       \* the replicas of a distributed run: where each is, and who wrote which file
    test_pass       \* one call of _get_valid_losses_on_test_data: its loader, its locals and what it returned

files == <<checkpoint_file, tmp_file, continue_file, history_file, best_files, best_tmp>>

solver == <<models, optimizers, history, best_states>>

locals == <<epoch, best_loss, losses, evaluation_loss, lsd, package, bi>>

ghosts == <<reset, replayed, started, durable, renames, cvlog>>

aux == <<live, collab, out, events, fail, trail>>

vars == <<args, files, pc, runs, solver, locals, ghosts, aux, epoch_log, replicas, test_pass>>

NoReset == [load_from |-> "", load_best |-> FALSE, keep_history |-> TRUE,
            existed |-> FALSE, ok |-> FALSE, loaded |-> NoPackage]

NoFile == [st |-> "absent", content |-> <<>>]

NoLive == [models |-> EmptyMap, optimizers |-> [top |-> EmptyMap, discriminator |-> EmptyMap]]

NoLosses == [generator |-> {}, discriminator |-> {}, parts |-> EmptyMap]

NoBestFile == [st |-> "absent", state |-> None]

NoSwap == [entered |-> None, inside |-> None, left |-> None]

\* A run that is not distributed: one process, of rank 0 (distrib.rank).
NoReplicas == [proc |-> <<>>, writers |-> <<>>]

\* No call of _get_valid_losses_on_test_data is followed.
NoTestPass ==
    [data_loader |-> <<>>, enhance |-> FALSE, i |-> 0, total_filenames |-> <<>>,
     saved |-> <<>>, returned |-> [is_none |-> TRUE, list |-> <<>>]]

NoEpochLog ==
    [phases |-> <<>>, evaluated_on_test_data |-> FALSE, enhanced |-> <<>>,
     swap |-> NoSwap, measured |-> None, ran |-> <<>>, cv_optimized |-> 0]

Init ==
    /\ args \in {a \in Configs :
                   /\ PlainEpochs(a)
                   /\ ~a.continue_from => (~a.continue_best /\ a.keep_history)
                   /\ ~a.checkpoint => ~a.restart
                   /\ ~a.cross_valid => a.cross_valid_every = 1}
    /\ checkpoint_file \in IF args.checkpoint
                           THEN {Absent, Written(EarlierPackage(args, 1))}
                           ELSE {Absent}
    /\ tmp_file = Absent
    /\ continue_file \in IF args.continue_from
                         THEN {Written(EarlierPackage(args, 1))}
                         ELSE {Absent}
    /\ history_file = NoFile
    /\ best_files = [n \in ModelNames(args) |-> NoBestFile]
    /\ best_tmp = [n \in ModelNames(args) |-> NoBestFile]
    /\ pc = "down"
    /\ runs = 0
    /\ models = FreshModels(args)
    /\ optimizers = FreshOptimizers(args)
    /\ history = <<>>
    /\ best_states = EmptyMap
    /\ epoch = 0
    /\ best_loss = None
    /\ losses = None
    /\ evaluation_loss = None
    /\ lsd = None
    /\ package = NoPackage
    /\ bi = 0
    /\ reset = NoReset
    /\ replayed = <<>>
    /\ started = 0
    /\ durable = checkpoint_file.pkg.history
    /\ renames = 0
    /\ cvlog = <<>>
    /\ live = NoLive
    /\ collab = {}
    /\ out = NoLosses
    /\ events = <<>>
    /\ fail = ""
    /\ trail = <<>>
    /\ epoch_log = NoEpochLog
    /\ replicas = NoReplicas
    /\ test_pass = NoTestPass

\* ------------------------------------------------------------ _reset
\* ResetDecision with the two sources tried in the other order.
ResetDecision_ContinueFirst(a, exists, rst) ==
    IF a.continue_from
    THEN [load_from |-> "continue_from", load_best |-> a.continue_best,
          keep_history |-> a.keep_history]
    ELSE IF a.checkpoint /\ exists /\ ~rst
         THEN [load_from |-> "checkpoint_file", load_best |-> FALSE, keep_history |-> TRUE]
         ELSE [load_from |-> "", load_best |-> FALSE, keep_history |-> TRUE]

\* The choice _reset makes (lines 185-194): exists is
\* self.checkpoint_file.exists(), rst is self.restart.
ResetDecision(a, exists, rst) ==
    IF a.checkpoint /\ exists /\ ~rst
    THEN [load_from |-> "checkpoint_file", load_best |-> FALSE, keep_history |-> TRUE]
    ELSE IF a.continue_from
         THEN [load_from |-> "continue_from", load_best |-> a.continue_best,
               keep_history |-> a.keep_history]
         ELSE [load_from |-> "", load_best |-> FALSE, keep_history |-> TRUE]

\* ResetHistory forgetting the loaded history.
ResetHistory_Drop(keep_history, pkg) == <<>>

\* Lines 200-201: the history _reset leaves in self.history after a load.
ResetHistory(keep_history, pkg) == IF keep_history THEN pkg.history ELSE <<>>

\* Solver.__init__ ending in _reset: the process starts on the files as
\* they are.  torch.load raises on a file that is not a complete package,
\* _load raises as Load says; either ends the process.
Construct ==
    /\ pc = "down"
    /\ runs < MaxRuns
    /\ runs' = runs + 1
    /\ LET exists == checkpoint_file.st # "absent"
             d == ResetDecision(args, exists, args.restart)
             f == IF d.load_from = "checkpoint_file" THEN checkpoint_file ELSE continue_file
             l == Load(args, FreshModels(args), FreshOptimizers(args), f.pkg, d.load_best)
             good == d.load_from = "" \/ (f.st = "complete" /\ l.ok)
         IN /\ reset' = [load_from |-> d.load_from, load_best |-> d.load_best,
                         keep_history |-> d.keep_history, existed |-> exists,
                         ok |-> good,
                         loaded |-> IF d.load_from = "" THEN NoPackage ELSE f.pkg]
            /\ IF d.load_from = ""
               THEN /\ models' = FreshModels(args)
                    /\ optimizers' = FreshOptimizers(args)
                    /\ history' = <<>>
                    /\ best_states' = EmptyMap
                    /\ pc' = "constructed"
               ELSE IF good
               THEN /\ models' = l.models
                    /\ optimizers' = l.optimizers
                    /\ history' = ResetHistory(d.keep_history, f.pkg)
                    /\ best_states' = f.pkg.best_states
                    /\ pc' = "constructed"
               ELSE /\ models' = FreshModels(args)
                    /\ optimizers' = FreshOptimizers(args)
                    /\ history' = <<>>
                    /\ best_states' = EmptyMap
                    /\ pc' = "down"
    /\ replayed' = <<>>
    /\ started' = 0
    /\ renames' = 0
    /\ cvlog' = <<>>
    /\ UNCHANGED <<args, replicas, test_pass, aux, epoch_log, files, locals, durable>>

\* ------------------------------------------------------------- train
\* TrainBegin with the epoch loop starting at 0 instead of len(history).
TrainBegin_FromZero ==
    /\ pc = "constructed"
    /\ replayed' = history
    /\ best_loss' = None
    /\ best_states' = EmptyMap
    /\ epoch' = 0
    /\ started' = Len(history)
    /\ pc' = "epoch"
    /\ UNCHANGED <<args, replicas, test_pass, aux, epoch_log, files, runs, models, optimizers, history,
                   losses, evaluation_loss, lsd, package, bi,
                   reset, durable, renames, cvlog>>

\* train() up to its epoch loop (lines 207-225): the replay of the loaded
\* history, best_loss = None, self.best_states = {}.
TrainBegin ==
    /\ pc = "constructed"
    /\ replayed' = history
    /\ best_loss' = None
    /\ best_states' = EmptyMap
    /\ epoch' = Len(history)
    /\ started' = Len(history)
    /\ pc' = "epoch"
    /\ UNCHANGED <<args, replicas, test_pass, aux, epoch_log, files, runs, models, optimizers, history,
                   losses, evaluation_loss, lsd, package, bi,
                   reset, durable, renames, cvlog>>

\* TrainEnd leaving the loop one epoch early.
TrainEnd_OneShort ==
    /\ pc = "epoch"
    /\ epoch >= MaxEpochs - 1
    /\ pc' = "done"
    /\ UNCHANGED <<args, replicas, test_pass, aux, epoch_log, files, runs, solver, locals, ghosts>>

\* range(len(self.history), self.epochs) is exhausted: train() returns.
TrainEnd ==
    /\ pc = "epoch"
    /\ epoch >= MaxEpochs
    /\ pc' = "done"
    /\ UNCHANGED <<args, replicas, test_pass, aux, epoch_log, files, runs, solver, locals, ghosts>>

\* The training pass of one epoch: _run_one_epoch(epoch) (lines 227-239).
RunOneEpoch ==
    /\ pc = "epoch"
    /\ epoch < MaxEpochs
    /\ LET st == RunOneEpochPass(args, [models |-> models, optimizers |-> optimizers], FALSE)
       IN /\ models' = st.models
          /\ optimizers' = st.optimizers
    /\ \E tl \in TrainLosses : losses' = tl
    /\ evaluation_loss' = None
    /\ lsd' = None
    /\ pc' = "cross_valid"
    /\ epoch_log' = [NoEpochLog EXCEPT !.phases = <<"Train">>,
                                       !.ran = Append(epoch_log.ran, epoch)]
    /\ UNCHANGED <<args, replicas, test_pass, aux, files, runs, history, best_states,
                   epoch, best_loss, package, bi, ghosts>>

\* Cross validation (lines 241-266), when due.
CrossValidate ==
    /\ pc = "cross_valid"
    /\ CrossValidDue(args, epoch)
    /\ args.valid_equals_test => args.tt_loader
    /\ LET pass == CrossValidPass(args, [models |-> models, optimizers |-> optimizers])
       IN /\ models' = pass.models
          /\ optimizers' = pass.optimizers
    /\ \E vl \in Losses :
         LET best == BestLoss(history, vl)
         IN /\ evaluation_loss' = vl
            /\ best_loss' = best
            /\ best_states' = IF IsNewBest(vl, best)
                              THEN CopyModelsStates(models') ELSE best_states
            /\ cvlog' = Append(cvlog, [loss |-> vl, models |-> models'])
    /\ pc' = "evaluate"
    /\ epoch_log' =
         [epoch_log EXCEPT
            !.phases = Append(@, "CrossValidate"),
            !.cv_optimized =
               CrossValidPass(args, [models |-> models, optimizers |-> optimizers]).optimized,
            !.evaluated_on_test_data = args.valid_equals_test,
            !.enhanced =
               IF args.valid_equals_test /\ EnhanceInCrossValid(args, epoch)
               THEN Append(@, [by |-> "CrossValidate",
                               call |-> "_get_valid_losses_on_test_data",
                               params |-> models[GENERATOR_KEY]])
               ELSE @]
    /\ UNCHANGED <<args, replicas, test_pass, aux, files, runs, history,
                   epoch, losses, lsd, package, bi,
                   reset, replayed, started, durable, renames>>

SkipCrossValidate ==
    /\ pc = "cross_valid"
    /\ ~CrossValidDue(args, epoch)
    /\ pc' = "evaluate"
    /\ UNCHANGED <<args, replicas, test_pass, aux, epoch_log, files, runs, solver, locals, ghosts>>

\* EvaluateOutputs running the model whatever cross validation did.
EvaluateOutputs_Always(a, log, inside) ==
    Append(log.enhanced,
           [by |-> "Evaluate",
            call |-> IF a.joint_evaluate_and_enhance THEN "evaluate" ELSE "enhance",
            params |-> inside])

\* Lines 298-311 inside the with block: the outputs saved by cross
\* validation are measured when it ran on the test set; otherwise the
\* model, holding `inside`, is run on the test set by evaluate or enhance.
EvaluateOutputs(a, log, inside) ==
    IF log.evaluated_on_test_data THEN log.enhanced
    ELSE Append(log.enhanced,
                [by |-> "Evaluate",
                 call |-> IF a.joint_evaluate_and_enhance THEN "evaluate" ELSE "enhance",
                 params |-> inside])

\* Evaluation on the test set (lines 280-324), when due.
Evaluate ==
    /\ pc = "evaluate"
    /\ EvaluateDue(args, epoch)
    /\ LET sw == EvaluateSwap(args, models, best_states)
             outs == EvaluateOutputs(args, epoch_log, sw.inside)
       IN /\ models' = [models EXCEPT ![GENERATOR_KEY] = sw.left]
          /\ epoch_log' = [epoch_log EXCEPT
                             !.phases = Append(@, "Evaluate"),
                             !.swap = sw,
                             !.enhanced = outs,
                             !.measured = IF outs = <<>> THEN None
                                          ELSE outs[Len(outs)].params]
    /\ lsd' = 1
    /\ pc' = "persist"
    /\ UNCHANGED <<args, replicas, test_pass, aux, files, runs, optimizers, history, best_states,
                   epoch, best_loss, losses, evaluation_loss, package, bi, ghosts>>

SkipEvaluate ==
    /\ pc = "evaluate"
    /\ ~EvaluateDue(args, epoch)
    /\ pc' = "persist"
    /\ UNCHANGED <<args, replicas, test_pass, aux, epoch_log, files, runs, solver, locals, ghosts>>

\* Persist without the append to self.history.
Persist_NoAppend ==
    /\ pc = "persist"
    /\ history' = history
    /\ history_file' = [st |-> "partial", content |-> <<>>]
    /\ pc' = "dump"
    /\ epoch_log' = [epoch_log EXCEPT !.phases = Append(@, "Persist")]
    /\ UNCHANGED <<args, replicas, test_pass, aux, checkpoint_file, tmp_file, continue_file, best_files, best_tmp,
                   runs, models, optimizers, best_states, locals, ghosts>>

\* The end of the epoch (lines 328-335): the record is appended to
\* self.history and the history file is opened for writing, which
\* truncates it.
Persist ==
    /\ pc = "persist"
    /\ history' = Append(history,
                         MetricsRecord(losses, evaluation_loss, evaluation_loss, best_loss, lsd))
    /\ history_file' = [st |-> "partial", content |-> <<>>]
    /\ pc' = "dump"
    /\ epoch_log' = [epoch_log EXCEPT !.phases = Append(@, "Persist")]
    /\ UNCHANGED <<args, replicas, test_pass, aux, checkpoint_file, tmp_file, continue_file, best_files, best_tmp,
                   runs, models, optimizers, best_states, locals, ghosts>>

\* DumpHistory writing the newest record only.
DumpHistory_NewestOnly ==
    /\ pc = "dump"
    /\ history_file' = [st |-> "complete", content |-> <<history[Len(history)]>>]
    /\ IF args.checkpoint
       THEN pc' = "serialize" /\ epoch' = epoch
       ELSE pc' = "epoch" /\ epoch' = epoch + 1
    /\ UNCHANGED <<args, replicas, test_pass, aux, epoch_log, checkpoint_file, tmp_file, continue_file, best_files, best_tmp,
                   runs, solver, best_loss, losses, evaluation_loss, lsd,
                   package, bi, ghosts>>

\* json.dump(self.history, ...) completes; `if self.checkpoint:` (line 337).
DumpHistory ==
    /\ pc = "dump"
    /\ history_file' = [st |-> "complete", content |-> history]
    /\ IF args.checkpoint
       THEN pc' = "serialize" /\ epoch' = epoch
       ELSE pc' = "epoch" /\ epoch' = epoch + 1
    /\ UNCHANGED <<args, replicas, test_pass, aux, epoch_log, checkpoint_file, tmp_file, continue_file, best_files, best_tmp,
                   runs, solver, best_loss, losses, evaluation_loss, lsd,
                   package, bi, ghosts>>

\* --------------------------------------------------------- _serialize
\* SerializeBegin writing the package in place, at the canonical path.
SerializeBegin_InPlace ==
    /\ pc = "serialize"
    /\ package' = Package(args, models, optimizers, history, best_states)
    /\ checkpoint_file' = Partial
    /\ tmp_file' = Partial
    /\ pc' = "save"
    /\ UNCHANGED <<args, replicas, test_pass, aux, epoch_log, continue_file, history_file, best_files, best_tmp,
                   runs, solver, epoch, best_loss, losses, evaluation_loss, lsd,
                   bi, ghosts>>

\* Lines 145-152: the package is built and torch.save starts writing it
\* to the temp path.
SerializeBegin ==
    /\ pc = "serialize"
    /\ package' = Package(args, models, optimizers, history, best_states)
    /\ tmp_file' = Partial
    /\ pc' = "save"
    /\ UNCHANGED <<args, replicas, test_pass, aux, epoch_log, checkpoint_file, continue_file, history_file, best_files, best_tmp,
                   runs, solver, epoch, best_loss, losses, evaluation_loss, lsd,
                   bi, ghosts>>

\* torch.save(package, tmp_path) returns: the temp file is complete.
SerializeSave ==
    /\ pc = "save"
    /\ tmp_file' = Written(package)
    /\ pc' = "rename"
    /\ UNCHANGED <<args, replicas, test_pass, aux, epoch_log, checkpoint_file, continue_file, history_file, best_files, best_tmp,
                   runs, solver, locals, ghosts>>

\* os.rename(tmp_path, self.checkpoint_file) (line 155).
SerializeRename ==
    /\ pc = "rename"
    /\ checkpoint_file' = tmp_file
    /\ tmp_file' = Absent
    /\ durable' = (IF renames = 0 THEN replayed ELSE durable)
                  \o <<MetricsRecord(losses, evaluation_loss, evaluation_loss, best_loss, lsd)>>
    /\ renames' = renames + 1
    /\ bi' = 1
    /\ pc' = "best"
    /\ UNCHANGED <<args, replicas, test_pass, aux, epoch_log, continue_file, history_file, best_files, best_tmp,
                   runs, solver, epoch, best_loss, losses, evaluation_loss, lsd,
                   package, reset, replayed, started, cvlog>>

\* The items of package['best_states'], in the order of the models dict.
BestItems(a, b) == SelectSeq(ModelOrder(a), LAMBDA n : n \in DOMAIN b)

\* Lines 159-163 for one model: its best state replaces the package's
\* 'state' and torch.save starts writing the artifact's temp file.
BestSaveBegin ==
    /\ pc = "best"
    /\ bi <= Len(BestItems(args, package.best_states))
    /\ LET n == BestItems(args, package.best_states)[bi]
       IN /\ package' = [package EXCEPT !.models[n].state = package.best_states[n]]
          /\ best_tmp' = [best_tmp EXCEPT ![n] = [st |-> "partial", state |-> None]]
    /\ pc' = "best_save"
    /\ UNCHANGED <<args, replicas, test_pass, aux, epoch_log, checkpoint_file, tmp_file, continue_file, history_file, best_files,
                   runs, solver, epoch, best_loss, losses, evaluation_loss, lsd,
                   bi, ghosts>>

BestSave ==
    /\ pc = "best_save"
    /\ LET n == BestItems(args, package.best_states)[bi]
       IN best_tmp' = [best_tmp EXCEPT ![n] = [st |-> "complete", state |-> package.models[n].state]]
    /\ pc' = "best_rename"
    /\ UNCHANGED <<args, replicas, test_pass, aux, epoch_log, checkpoint_file, tmp_file, continue_file, history_file, best_files,
                   runs, solver, locals, ghosts>>

\* os.rename(tmp_path, model_path) (line 165).
BestRename ==
    /\ pc = "best_rename"
    /\ LET n == BestItems(args, package.best_states)[bi]
       IN /\ best_files' = [best_files EXCEPT ![n] = best_tmp[n]]
          /\ best_tmp' = [best_tmp EXCEPT ![n] = NoBestFile]
    /\ bi' = bi + 1
    /\ pc' = "best"
    /\ UNCHANGED <<args, replicas, test_pass, aux, epoch_log, checkpoint_file, tmp_file, continue_file, history_file,
                   runs, solver, epoch, best_loss, losses, evaluation_loss, lsd,
                   package, ghosts>>

\* _serialize returns and the epoch loop goes on to the next epoch.
SerializeEnd ==
    /\ pc = "best"
    /\ bi > Len(BestItems(args, package.best_states))
    /\ epoch' = epoch + 1
    /\ pc' = "epoch"
    /\ UNCHANGED <<args, replicas, test_pass, aux, epoch_log, files, runs, solver,
                   best_loss, losses, evaluation_loss, lsd, package, bi, ghosts>>

\* The process stops at any point (a crash, a fatal error, or its exit
\* after train() returned): what it held in memory is gone, the files stay.
Crash ==
    /\ pc # "down"
    /\ pc' = "down"
    /\ models' = FreshModels(args)
    /\ optimizers' = FreshOptimizers(args)
    /\ history' = <<>>
    /\ best_states' = EmptyMap
    /\ epoch' = 0
    /\ best_loss' = None
    /\ losses' = None
    /\ evaluation_loss' = None
    /\ lsd' = None
    /\ package' = NoPackage
    /\ bi' = 0
    /\ reset' = NoReset
    /\ replayed' = <<>>
    /\ started' = 0
    /\ renames' = 0
    /\ cvlog' = <<>>
    /\ epoch_log' = NoEpochLog
    /\ UNCHANGED <<args, replicas, test_pass, aux, files, runs, durable>>

Next ==
    \/ Construct
    \/ TrainBegin
    \/ TrainEnd
    \/ RunOneEpoch
    \/ CrossValidate
    \/ SkipCrossValidate
    \/ Evaluate
    \/ SkipEvaluate
    \/ Persist
    \/ DumpHistory
    \/ SerializeBegin
    \/ SerializeSave
    \/ SerializeRename
    \/ BestSaveBegin
    \/ BestSave
    \/ BestRename
    \/ SerializeEnd
    \/ Crash

Spec == Init /\ [][Next]_vars

\* The steps of a process that is running: it takes its next step unless
\* it crashes.
Progress ==
    \/ Construct
    \/ TrainBegin
    \/ TrainEnd
    \/ RunOneEpoch
    \/ CrossValidate
    \/ SkipCrossValidate
    \/ Evaluate
    \/ SkipEvaluate
    \/ Persist
    \/ DumpHistory
    \/ SerializeBegin
    \/ SerializeSave
    \/ SerializeRename
    \/ BestSaveBegin
    \/ BestSave
    \/ BestRename
    \/ SerializeEnd

\* A checkpointed experiment without discriminators, not continued from
\* another one.
InitFair ==
    /\ Init
    /\ args.layout = "none"
    /\ args.checkpoint
    /\ ~args.continue_from

SpecFair == InitFair /\ [][Next]_vars /\ WF_vars(Progress)

\* ===================================================== the round trip
\* SpecRoundTrip: a solver in any state of its models and optimizers is
\* serialized, and a newly constructed solver loads what was written.
RoundTripConfigs ==
    {a \in Configs :
       /\ a.checkpoint /\ ~a.restart /\ ~a.continue_from /\ ~a.continue_best
       /\ a.keep_history /\ a.cross_valid
       /\ a.cross_valid_every = 1 /\ a.eval_every = 1
       /\ PlainEpochs(a)}

InitRoundTrip ==
    /\ args \in RoundTripConfigs
    /\ models \in [ModelNames(args) -> 0..MaxState]
    /\ optimizers \in [top : [TopOptimizerKeys(args) -> 0..MaxState],
                       discriminator : [NestedOptimizerKeys(args) -> 0..MaxState]]
    /\ best_states \in {EmptyMap} \cup [ModelNames(args) -> 0..MaxState]
    /\ history = <<MetricsRecord(1, None, None, None, None)>>
    /\ pc = "rt_live"
    /\ checkpoint_file = Absent
    /\ tmp_file = Absent
    /\ continue_file = Absent
    /\ history_file = NoFile
    /\ best_files = [n \in ModelNames(args) |-> NoBestFile]
    /\ best_tmp = [n \in ModelNames(args) |-> NoBestFile]
    /\ runs = 0
    /\ epoch = 0
    /\ best_loss = None
    /\ losses = None
    /\ evaluation_loss = None
    /\ lsd = None
    /\ package = NoPackage
    /\ bi = 0
    /\ reset = NoReset
    /\ replayed = <<>>
    /\ started = 0
    /\ durable = <<>>
    /\ renames = 0
    /\ cvlog = <<>>
    /\ live = NoLive
    /\ collab = {}
    /\ out = NoLosses
    /\ events = <<>>
    /\ fail = ""
    /\ trail = <<>>
    /\ epoch_log = NoEpochLog
    /\ replicas = NoReplicas
    /\ test_pass = NoTestPass

\* _serialize as a whole (lines 144-165).
RT_Serialize ==
    /\ pc = "rt_live"
    /\ LET p == Package(args, models, optimizers, history, best_states)
       IN /\ checkpoint_file' = Written(p)
          /\ package' = [p EXCEPT !.models =
                           [n \in DOMAIN p.models |->
                              IF n \in DOMAIN p.best_states
                              THEN [state |-> p.best_states[n]] ELSE p.models[n]]]
          /\ best_files' = [n \in DOMAIN best_files |->
                              IF n \in DOMAIN p.best_states
                              THEN [st |-> "complete", state |-> p.best_states[n]]
                              ELSE best_files[n]]
    /\ live' = [models |-> models, optimizers |-> optimizers]
    /\ pc' = "rt_saved"
    /\ UNCHANGED <<args, replicas, test_pass, tmp_file, continue_file, history_file, best_tmp, runs, solver,
                   epoch, best_loss, losses, evaluation_loss, lsd, bi, ghosts,
                   collab, out, events, fail, trail, epoch_log>>

\* A new Solver of the same configuration calls _load(package, load_best)
\* on the package read back from the file.
RT_Load(load_best) ==
    /\ pc = "rt_saved"
    /\ LET pkg == checkpoint_file.pkg
           l == Load(args, FreshModels(args), FreshOptimizers(args), pkg, load_best)
       IN /\ models' = l.models
          /\ optimizers' = l.optimizers
          /\ reset' = [load_from |-> "checkpoint_file", load_best |-> load_best,
                       keep_history |-> TRUE, existed |-> TRUE, ok |-> l.ok,
                       loaded |-> pkg]
          /\ pc' = IF l.ok THEN "rt_loaded" ELSE "rt_failed"
          /\ fail' = IF l.ok THEN "" ELSE "_load"
    /\ UNCHANGED <<args, replicas, test_pass, files, runs, history, best_states, locals,
                   replayed, started, durable, renames, cvlog,
                   live, collab, out, events, trail, epoch_log>>

RT_LoadFull == RT_Load(FALSE)

RT_LoadBest == RT_Load(TRUE)

NextRoundTrip ==
    \/ RT_Serialize
    \/ RT_LoadFull
    \/ RT_LoadBest

SpecRoundTrip == InitRoundTrip /\ [][NextRoundTrip]_vars

\* ------------------------------------------- one run, epoch by epoch
\* The loop of train under every cadence, with and without the loaders,
\* with validation on the test set, evaluation of the best snapshot and
\* joint evaluation, from an empty experiment or from the checkpoint of a
\* first epoch.
InitEpoch ==
    /\ args \in {a \in Configs :
                   /\ a.checkpoint /\ ~a.restart
                   /\ ~a.continue_from /\ ~a.continue_best /\ a.keep_history
                   /\ a.layout \in {"none", "separate"}
                   /\ ~a.cross_valid =>
                        (a.cross_valid_every = 1 /\ a.cv_loader /\ ~a.valid_equals_test)}
    /\ checkpoint_file \in
         {Absent} \cup
         (IF CrossValidDue(args, 0) /\ args.valid_equals_test /\ ~args.tt_loader
          THEN {}
          ELSE {Written(EarlierPackage(args, l)) : l \in Losses})
    /\ tmp_file = Absent
    /\ continue_file \in IF args.continue_from
                         THEN {Written(EarlierPackage(args, 1))}
                         ELSE {Absent}
    /\ history_file = NoFile
    /\ best_files = [n \in ModelNames(args) |-> NoBestFile]
    /\ best_tmp = [n \in ModelNames(args) |-> NoBestFile]
    /\ pc = "down"
    /\ runs = 0
    /\ models = FreshModels(args)
    /\ optimizers = FreshOptimizers(args)
    /\ history = <<>>
    /\ best_states = EmptyMap
    /\ epoch = 0
    /\ best_loss = None
    /\ losses = None
    /\ evaluation_loss = None
    /\ lsd = None
    /\ package = NoPackage
    /\ bi = 0
    /\ reset = NoReset
    /\ replayed = <<>>
    /\ started = 0
    /\ durable = checkpoint_file.pkg.history
    /\ renames = 0
    /\ cvlog = <<>>
    /\ live = NoLive
    /\ collab = {}
    /\ out = NoLosses
    /\ events = <<>>
    /\ fail = ""
    /\ trail = <<>>
    /\ epoch_log = NoEpochLog
    /\ replicas = NoReplicas
    /\ test_pass = NoTestPass

\* Cross validation on the test set with no test loader: line 420 sets
\* an attribute of None and train raises.
CrossValidateFail ==
    /\ pc = "cross_valid"
    /\ CrossValidDue(args, epoch)
    /\ args.valid_equals_test /\ ~args.tt_loader
    /\ pc' = "raised"
    /\ epoch_log' = [epoch_log EXCEPT !.phases = Append(@, "CrossValidate")]
    /\ UNCHANGED <<args, replicas, test_pass, aux, files, runs, solver, locals, ghosts>>

\* An exception inside the with block of line 293 (enhance, evaluate or
\* evaluate_on_saved_data raises): the block is left, train raises.
EvaluateFail ==
    /\ pc = "evaluate"
    /\ EvaluateDue(args, epoch)
    /\ LET sw == EvaluateSwap(args, models, best_states)
       IN /\ models' = [models EXCEPT ![GENERATOR_KEY] = sw.left]
          /\ epoch_log' = [epoch_log EXCEPT !.phases = Append(@, "Evaluate"),
                                            !.swap = sw]
    /\ pc' = "raised"
    /\ UNCHANGED <<args, replicas, test_pass, aux, files, runs, optimizers, history, best_states,
                   locals, ghosts>>

NextEpoch ==
    \/ Construct
    \/ TrainBegin
    \/ TrainEnd
    \/ RunOneEpoch
    \/ CrossValidate
    \/ CrossValidateFail
    \/ SkipCrossValidate
    \/ Evaluate
    \/ EvaluateFail
    \/ SkipEvaluate
    \/ Persist
    \/ DumpHistory
    \/ SerializeBegin
    \/ SerializeSave
    \/ SerializeRename
    \/ BestSaveBegin
    \/ BestSave
    \/ BestRename
    \/ SerializeEnd

SpecEpoch == InitEpoch /\ [][NextEpoch]_vars

\* ----------------------------------------------- a distributed run
\* MaxReplicas processes run train() side by side on a fresh experiment,
\* each with its own Solver and its own rank; a replica is followed from
\* the end of an epoch's passes through lines 328-339 and _serialize, one
\* step per file it writes.
Ranks == 0..(MaxReplicas - 1)

PersistFiles == {"history_file", "tmp_file", "checkpoint_file", "best_tmp", "best_file"}

\* Coordinator whatever the rank.
Coordinator_Any(r) == TRUE

\* `if distrib.rank == 0:` (line 334)
Coordinator(r) == r = 0

InitReplicas ==
    /\ args \in {a \in Configs :
                   /\ PlainEpochs(a)
                   /\ ~a.restart /\ ~a.continue_from /\ ~a.continue_best /\ a.keep_history
                   /\ a.layout = "none"
                   /\ a.cross_valid_every = 1 /\ a.eval_every = 1}
    /\ checkpoint_file = Absent
    /\ tmp_file = Absent
    /\ continue_file \in IF args.continue_from
                         THEN {Written(EarlierPackage(args, 1))}
                         ELSE {Absent}
    /\ history_file = NoFile
    /\ best_files = [n \in ModelNames(args) |-> NoBestFile]
    /\ best_tmp = [n \in ModelNames(args) |-> NoBestFile]
    /\ pc = "down"
    /\ runs = 0
    /\ models = FreshModels(args)
    /\ optimizers = FreshOptimizers(args)
    /\ history = <<>>
    /\ best_states = EmptyMap
    /\ epoch = 0
    /\ best_loss = None
    /\ losses = None
    /\ evaluation_loss = None
    /\ lsd = None
    /\ package = NoPackage
    /\ bi = 0
    /\ reset = NoReset
    /\ replayed = <<>>
    /\ started = 0
    /\ durable = checkpoint_file.pkg.history
    /\ renames = 0
    /\ cvlog = <<>>
    /\ live = NoLive
    /\ collab = {}
    /\ out = NoLosses
    /\ events = <<>>
    /\ fail = ""
    /\ trail = <<>>
    /\ epoch_log = NoEpochLog
    /\ replicas = [proc |-> [r \in Ranks |->
                                [pc |-> "epoch", epoch |-> 0, len_history |-> 0,
                                 best |-> FALSE]],
                    writers |-> [f \in PersistFiles |-> {}]]
    /\ test_pass = NoTestPass

Proc(r) == replicas.proc[r]

NextEpochOf(p) == [p EXCEPT !.pc = "epoch", !.epoch = @ + 1]

Wrote(r, f) == [replicas.writers EXCEPT ![f] = @ \cup {r}]

\* The passes of one epoch and the append of line 329, which every
\* replica does; the first cross validation of a run is a new best.
R_Epoch(r) ==
    /\ Proc(r).pc = "epoch"
    /\ Proc(r).epoch < MaxEpochs
    /\ replicas' = [replicas EXCEPT
                      !.proc[r] = [@ EXCEPT !.pc = "rank",
                                            !.len_history = @ + 1,
                                            !.best = @ \/ CrossValidDue(args, Proc(r).epoch)]]
    /\ UNCHANGED <<args, files, pc, runs, solver, locals, ghosts, aux, epoch_log, test_pass>>

\* Line 334.
R_Rank(r) ==
    /\ Proc(r).pc = "rank"
    /\ replicas' = [replicas EXCEPT
                      !.proc[r] = IF Coordinator(r) THEN [@ EXCEPT !.pc = "dump"]
                                  ELSE NextEpochOf(@)]
    /\ UNCHANGED <<args, files, pc, runs, solver, locals, ghosts, aux, epoch_log, test_pass>>

\* Line 335, then `if self.checkpoint:`.
R_Dump(r) ==
    /\ Proc(r).pc = "dump"
    /\ replicas' = [replicas EXCEPT
                      !.writers = Wrote(r, "history_file"),
                      !.proc[r] = IF args.checkpoint THEN [@ EXCEPT !.pc = "save"]
                                  ELSE NextEpochOf(@)]
    /\ UNCHANGED <<args, files, pc, runs, solver, locals, ghosts, aux, epoch_log, test_pass>>

\* torch.save(package, tmp_path) (line 152)
R_Save(r) ==
    /\ Proc(r).pc = "save"
    /\ replicas' = [replicas EXCEPT !.writers = Wrote(r, "tmp_file"),
                                    !.proc[r] = [@ EXCEPT !.pc = "rename"]]
    /\ UNCHANGED <<args, files, pc, runs, solver, locals, ghosts, aux, epoch_log, test_pass>>

\* os.rename(tmp_path, self.checkpoint_file) (line 155); the loop of
\* line 159 has an item only when best_states is not empty.
R_Rename(r) ==
    /\ Proc(r).pc = "rename"
    /\ replicas' = [replicas EXCEPT
                      !.writers = Wrote(r, "checkpoint_file"),
                      !.proc[r] = IF @.best THEN [@ EXCEPT !.pc = "best_save"]
                                  ELSE NextEpochOf(@)]
    /\ UNCHANGED <<args, files, pc, runs, solver, locals, ghosts, aux, epoch_log, test_pass>>

\* torch.save(models[model_name], tmp_path) (line 163)
R_BestSave(r) ==
    /\ Proc(r).pc = "best_save"
    /\ replicas' = [replicas EXCEPT !.writers = Wrote(r, "best_tmp"),
                                    !.proc[r] = [@ EXCEPT !.pc = "best_rename"]]
    /\ UNCHANGED <<args, files, pc, runs, solver, locals, ghosts, aux, epoch_log, test_pass>>

\* os.rename(tmp_path, model_path) (line 165)
R_BestRename(r) ==
    /\ Proc(r).pc = "best_rename"
    /\ replicas' = [replicas EXCEPT !.writers = Wrote(r, "best_file"),
                                    !.proc[r] = NextEpochOf(@)]
    /\ UNCHANGED <<args, files, pc, runs, solver, locals, ghosts, aux, epoch_log, test_pass>>

NextReplicas ==
    \E r \in Ranks :
        \/ R_Epoch(r)
        \/ R_Rank(r)
        \/ R_Dump(r)
        \/ R_Save(r)
        \/ R_Rename(r)
        \/ R_BestSave(r)
        \/ R_BestRename(r)

SpecReplicas == InitReplicas /\ [][NextReplicas]_vars

\* ------------------------------------------- one pass over the test set
\* SpecTestPass: one call of _get_valid_losses_on_test_data(epoch, enhance)
\* over a test loader of up to MaxItems items, followed item by item.  A
\* python str is the sequence of its characters, each a str of length one.
Chars == {"a", "b"}

Strs == UNION {[1..n -> Chars] : n \in 1..MaxStem}

\* The hr_path of a test item, as pathlib takes it apart.
HrPaths == [parent : {"hr"}, stem : Strs, suffix : {".wav"}]

\* Path(hr_path[0]).stem (line 432)
PathStem(path) == path.stem

DataLoaders == UNION {[1..n -> HrPaths] : n \in 0..MaxItems}

\* `list += str` (line 433): list.__iadd__ extends the list by the items
\* the right-hand side yields when iterated, the characters of the str.
ListIAddStr(list, str) == list \o [k \in 1..Len(str) |-> <<str[k]>>]

InitTestPass ==
    /\ args \in {a \in Configs :
                   /\ a.cv_loader /\ a.tt_loader /\ a.valid_equals_test
                   /\ ~a.evaluate_on_best /\ ~a.joint_evaluate_and_enhance
                   /\ ~a.restart /\ ~a.continue_from /\ ~a.continue_best /\ a.keep_history
                   /\ a.layout = "none" /\ a.checkpoint /\ a.cross_valid
                   /\ a.cross_valid_every = 1 /\ a.eval_every = 1}
    /\ checkpoint_file = Absent
    /\ tmp_file = Absent
    /\ continue_file = Absent
    /\ history_file = NoFile
    /\ best_files = [n \in ModelNames(args) |-> NoBestFile]
    /\ best_tmp = [n \in ModelNames(args) |-> NoBestFile]
    /\ pc = "test_call"
    /\ runs = 1
    /\ models = FreshModels(args)
    /\ optimizers = FreshOptimizers(args)
    /\ history = <<>>
    /\ best_states = EmptyMap
    /\ epoch = 0
    /\ best_loss = None
    /\ losses = None
    /\ evaluation_loss = None
    /\ lsd = None
    /\ package = NoPackage
    /\ bi = 0
    /\ reset = NoReset
    /\ replayed = <<>>
    /\ started = 0
    /\ durable = <<>>
    /\ renames = 0
    /\ cvlog = <<>>
    /\ live = NoLive
    /\ collab = {}
    /\ out = NoLosses
    /\ events = <<>>
    /\ fail = ""
    /\ trail = <<>>
    /\ epoch_log = NoEpochLog
    /\ replicas = NoReplicas
    /\ \E dl \in DataLoaders, enhance \in BOOLEAN :
           test_pass = [NoTestPass EXCEPT !.data_loader = dl, !.enhance = enhance]

TestPassFrame == UNCHANGED <<args, files, runs, solver, locals, ghosts, aux, epoch_log, replicas>>

\* Lines 415-425: total_filenames = [] and the loop is entered.
T_Begin ==
    /\ pc = "test_call"
    /\ pc' = "test_loop"
    /\ test_pass' = [test_pass EXCEPT !.i = 0, !.total_filenames = <<>>, !.saved = <<>>]
    /\ TestPassFrame

\* One item of the loop (lines 427-471): the stem is added to
\* total_filenames (line 433) and, `if enhance:`, the item's outputs are
\* saved under samples_dir/<filename> (lines 441-444).
T_Item ==
    /\ pc = "test_loop"
    /\ test_pass.i < Len(test_pass.data_loader)
    /\ LET filename == PathStem(test_pass.data_loader[test_pass.i + 1])
       IN test_pass' = [test_pass EXCEPT
                          !.i = @ + 1,
                          !.total_filenames = ListIAddStr(@, filename),
                          !.saved = IF test_pass.enhance THEN Append(@, filename) ELSE @]
    /\ UNCHANGED pc
    /\ TestPassFrame

\* `return avg_losses, total_filenames if enhance else None` (line 478)
T_Return ==
    /\ pc = "test_loop"
    /\ test_pass.i = Len(test_pass.data_loader)
    /\ test_pass.i > 0
    /\ pc' = "returned"
    /\ test_pass' = [test_pass EXCEPT
                       !.returned = IF test_pass.enhance
                                    THEN [is_none |-> FALSE, list |-> test_pass.total_filenames]
                                    ELSE [is_none |-> TRUE, list |-> <<>>]]
    /\ TestPassFrame

\* Line 473 reads the loop variable i, which a loader without items never
\* bound: the call raises.
T_Raise ==
    /\ pc = "test_loop"
    /\ Len(test_pass.data_loader) = 0
    /\ pc' = "raised"
    /\ UNCHANGED test_pass
    /\ TestPassFrame

NextTestPass ==
    \/ T_Begin
    \/ T_Item
    \/ T_Return
    \/ T_Raise

SpecTestPass == InitTestPass /\ [][NextTestPass]_vars

\* ======================================================== one batch
\* SpecBatch: a Solver is constructed for a configuration of loss kinds
\* and discriminator variants and trains its batches: _get_losses,
\* _optimize and, in adversarial mode, _optimize_adversarial.
LossOrder == <<"l1", "l2", "stft", "perceptual", "mel", "spectral_l1", "spectral_l2", "mbd">>

LossKinds == {LossOrder[i] : i \in 1..Len(LossOrder)}

DiscKinds == {DiscOrder[i] : i \in 1..Len(DiscOrder)}

\* The variants whose branch of _get_losses runs (lines 512-612).
ActiveVariants(a) ==
    IF ~adversarial_mode(a) THEN {}
    ELSE IF multiple_discriminators_mode(a) THEN a.discriminator_models
    ELSE {a.discriminator_model} \cap DiscKinds

NeededModels(a) == UNION {ModelsOf(d) : d \in ActiveVariants(a)}

\* args.losses, args.experiment and the keys of the models handed in
\* beside the generator: they are keyed either by what the variants' terms
\* look up or by the variants' own names.
BatchConfig(a) ==
    /\ a.layout \in Layouts
    /\ a.losses \in {k \in SUBSET LossKinds : Cardinality(k) <= MaxLossKinds}
    /\ a.discriminator_model \in (IF a.layout = "single" THEN DiscKinds ELSE {"none"})
    /\ a.discriminator_models \in
         (IF multiple_discriminators_mode(a)
          THEN {d \in SUBSET DiscKinds : Cardinality(d) <= MaxDiscs} ELSE {{}})
    /\ a.mel_spec_transform \in BOOLEAN
    /\ a.only_adversarial_loss \in (IF adversarial_mode(a) THEN BOOLEAN ELSE {FALSE})
    /\ a.only_features_loss \in (IF adversarial_mode(a) THEN BOOLEAN ELSE {FALSE})
    /\ a.model_keys \in {NeededModels(a), ActiveVariants(a)}

\* The attributes lines 99-116 create; self.perceptual_loss is created
\* nowhere in the class.
Collaborators(a) ==
    (IF "stft" \in a.losses THEN {"mrstftloss"} ELSE {})
    \cup (IF \/ "mbd" \in a.losses
             \/ a.mel_spec_transform
             \/ a.discriminator_model \in {"hifi", "mbd"}
          THEN {"melspec_transform"} ELSE {})

\* What the term of a loss kind reads of self, in the order it reads it.
NeedsOfLoss(k) ==
    CASE k = "stft" -> <<"mrstftloss">>
      [] k = "perceptual" -> <<"perceptual_loss">>
      [] k = "mel" -> <<"melspec_transform">>
      [] OTHER -> <<>>

\* What the branch of a variant reads of self and of self.dmodels.
NeedsOfVariant(a, d) ==
    CASE d = "hifi" -> <<"mpd", "msd", "melspec_transform">>
      [] d = "mbd" -> <<"mbd", "melspec_transform">>
      [] d = "spec" -> (IF a.mel_spec_transform THEN <<"melspec_transform">> ELSE <<>>)
                       \o <<"spec">>
      [] d = "stft" -> <<"stft_disc">>
      [] OTHER -> <<d>>

RECURSIVE Flatten(_)
Flatten(ss) == IF ss = <<>> THEN <<>> ELSE Head(ss) \o Flatten(Tail(ss))

\* Everything one call of _get_losses reads, in order.
Needs(a) ==
    LET ls == SelectSeq(LossOrder, LAMBDA k : k \in a.losses)
        ds == SelectSeq(DiscOrder, LAMBDA d : d \in ActiveVariants(a))
    IN Flatten([i \in 1..Len(ls) |-> NeedsOfLoss(ls[i])])
       \o Flatten([i \in 1..Len(ds) |-> NeedsOfVariant(a, ds[i])])

\* The keys a variant enters into losses['generator'].
GeneratorKeysOf(a, d) ==
    IF d \in {"hifi", "mbd", "stft"} THEN {"adversarial_" \o d}
    ELSE (IF ~a.only_features_loss THEN {"adversarial_" \o d} ELSE {})
         \cup (IF ~a.only_adversarial_loss THEN {"features_" \o d} ELSE {})

\* What the helper of variant d sums into the value entered under key
\* (lines 620-823): the adversarial term, the feature matching term, the
\* mel-spectrogram L1 term.
PartsOf(a, d, key) ==
    CASE d = "hifi" -> (IF a.only_features_loss THEN {"features"}
                        ELSE {"adversarial", "features", "mel"})
      [] d = "mbd" -> {"adversarial", "features", "mel"}
      [] d = "stft" -> {"adversarial", "features"}
      [] OTHER -> (IF key = "adversarial_" \o d THEN {"adversarial"} ELSE {"features"})

\* losses['generator']: its keys, and what each value is the sum of.
GeneratorParts(a) ==
    LET own == a.losses \ {"mbd"}
        keys == own \cup UNION {GeneratorKeysOf(a, d) : d \in ActiveVariants(a)}
    IN [k \in keys |->
          IF k \in own THEN {k}
          ELSE PartsOf(a, CHOOSE d \in ActiveVariants(a) : k \in GeneratorKeysOf(a, d), k)]

\* GetLosses keying the discriminator terms by the models they pass through.
GetLosses_ByModel(a, c, keys) ==
    LET missing == SelectSeq(Needs(a), LAMBDA x : x \notin c \cup keys)
    IN IF missing # <<>>
       THEN [ok |-> FALSE, missing |-> Head(missing), losses |-> NoLosses]
       ELSE [ok |-> TRUE, missing |-> "",
             losses |-> [generator |-> DOMAIN GeneratorParts(a),
                         discriminator |-> NeededModels(a),
                         parts |-> GeneratorParts(a)]]

\* _get_losses on a solver with attributes c and models keyed by keys:
\* the keys of the two mappings, or the first thing found missing.
GetLosses(a, c, keys) ==
    LET missing == SelectSeq(Needs(a), LAMBDA x : x \notin c \cup keys)
    IN IF missing # <<>>
       THEN [ok |-> FALSE, missing |-> Head(missing), losses |-> NoLosses]
       ELSE [ok |-> TRUE, missing |-> "",
             losses |-> [generator |-> DOMAIN GeneratorParts(a),
                         discriminator |-> ActiveVariants(a),
                         parts |-> GeneratorParts(a)]]

\* ------------------------------------------- the passes and gradients
\* One forward pass of a discriminator model inside a variant's
\* _get_*_adversarial_loss: prediction is how the generator's output
\* enters it ("attached", "detached" by .detach(), "none" when only the
\* target is passed), real is how its outputs for the target enter the
\* loss it feeds, feeds is the loss its outputs go to.
Pass(model, prediction, real, feeds) ==
    [model |-> model, prediction |-> prediction, real |-> real, feeds |-> feeds]

\* src.models.discriminators.feature_loss(fmap_r, fmap_g): the L1
\* distance between the real (detached) and the fake feature maps.
feature_loss == [real |-> "detached", fake |-> "attached"]

\* The hinge variants (lines 620-666, 792-823): three passes, the real one
\* shared, its feature maps detached in the feature matching term.
HingePasses(m) ==
    {Pass(m, "detached", "unused", "discriminator"),
     Pass(m, "none", "attached", "discriminator"),
     Pass(m, "attached", "unused", "generator"),
     Pass(m, "none", "detached", "generator")}

\* The variants whose model takes (hr, pr) in one call (lines 669-790).
PairPasses(m) ==
    {Pass(m, "detached", "attached", "discriminator"),
     Pass(m, "attached", feature_loss.real, "generator")}

\* PassesOf with no prediction detached.
PassesOf_Attached(d) ==
    UNION {{Pass(m, "attached", "attached", "discriminator"),
            Pass(m, "attached", feature_loss.real, "generator")} : m \in ModelsOf(d)}

\* The forward passes of variant d's term.
PassesOf(d) ==
    IF d \in {"melgan", "stft"}
    THEN UNION {HingePasses(m) : m \in ModelsOf(d)}
    ELSE UNION {PairPasses(m) : m \in ModelsOf(d)}

\* The models whose parameters a backward through pass p reaches.
GradInto(p) ==
    (IF p.prediction = "attached" THEN {GENERATOR_KEY} ELSE {})
    \cup (IF p.prediction # "none" \/ p.real = "attached" THEN {p.model} ELSE {})

\* The models in which the backward of variant d's discriminator loss
\* deposits gradient.
DiscriminatorInto(d) ==
    UNION {GradInto(p) : p \in {q \in PassesOf(d) : q.feeds = "discriminator"}}

\* The models in which total_generator_loss.backward() deposits gradient:
\* every term is a function of the prediction, the variants' terms also of
\* the discriminators they were passed through.
GeneratorInto(a, o) ==
    (IF o.generator # {} THEN {GENERATOR_KEY} ELSE {})
    \cup UNION {GradInto(p) :
                  p \in UNION {{q \in PassesOf(d) : q.feeds = "generator"} :
                                 d \in {v \in o.discriminator : GeneratorKeysOf(a, v) # {}}}}

\* The models in which the backward event of target t deposits gradient.
BackwardInto(a, o, t) ==
    CASE t = "generator" -> GeneratorInto(a, o)
      [] t = "sum" -> UNION {DiscriminatorInto(d) : d \in o.discriminator}
      [] OTHER -> DiscriminatorInto(t)

\* The loss terms a gradient can stem from.
Terms == DiscKinds \cup {GENERATOR_KEY}

\* The models whose parameters the optimizer an event names holds: the
\* generator's, every discriminator's for the single or joint optimizer,
\* the variant's own for the optimizer of its name.
Owned(t, ms) ==
    CASE t = "optimizer" -> {GENERATOR_KEY}
      [] t = "disc_optimizer" -> ms \ {GENERATOR_KEY}
      [] OTHER -> ModelsOf(t)

\* The .grad of every model's parameters after one optimizer call, g
\* being the .grad before it: per term, how many backward passes of that
\* term have accumulated there since the last zero_grad.
GradStep(a, o, g, e) ==
    [m \in DOMAIN g |->
       CASE e.op = "zero_grad" ->
              IF m \in Owned(e.target, DOMAIN g) THEN [t \in Terms |-> 0] ELSE g[m]
         [] e.op = "backward" ->
              [t \in Terms |->
                 IF \/ e.target = t /\ m \in BackwardInto(a, o, t)
                    \/ e.target = "sum" /\ t \in o.discriminator /\ m \in DiscriminatorInto(t)
                 THEN g[m][t] + 1 ELSE g[m][t]]
         [] OTHER -> g[m]]

RECURSIVE GradsAfter(_, _, _, _)
GradsAfter(a, o, g, evs) ==
    IF evs = <<>> THEN g ELSE GradsAfter(a, o, GradStep(a, o, g, Head(evs)), Tail(evs))

\* The .grad held when the optimizer t is stepped in the batch whose
\* optimizer calls are evs, all .grad being clear when the batch begins.
GradsAtStep(a, o, ms, evs, t) ==
    LET i == CHOOSE k \in 1..Len(evs) : evs[k] = Ev("step", t)
    IN GradsAfter(a, o, [m \in ms |-> [x \in Terms |-> 0]], SubSeq(evs, 1, i - 1))

InitBatch ==
    /\ \E l \in Layouts,
          ks \in {k \in SUBSET LossKinds : Cardinality(k) <= MaxLossKinds},
          dm \in DiscKinds \cup {"none"},
          ds \in {d \in SUBSET DiscKinds : Cardinality(d) <= MaxDiscs},
          mel, oa, of \in BOOLEAN, named \in BOOLEAN :
         LET a == [layout |-> l, losses |-> ks, discriminator_model |-> dm,
                   discriminator_models |-> ds, mel_spec_transform |-> mel,
                   only_adversarial_loss |-> oa, only_features_loss |-> of,
                   model_keys |-> {}]
             b == [a EXCEPT !.model_keys = IF named THEN ActiveVariants(a)
                                           ELSE NeededModels(a)]
         IN BatchConfig(b) /\ args = b
    /\ pc = "b_new"
    /\ models = EmptyMap
    /\ optimizers = NoLive.optimizers
    /\ history = <<>>
    /\ best_states = EmptyMap
    /\ checkpoint_file = Absent
    /\ tmp_file = Absent
    /\ continue_file = Absent
    /\ history_file = NoFile
    /\ best_files = EmptyMap
    /\ best_tmp = EmptyMap
    /\ runs = 0
    /\ epoch = 0
    /\ best_loss = None
    /\ losses = None
    /\ evaluation_loss = None
    /\ lsd = None
    /\ package = NoPackage
    /\ bi = 0
    /\ reset = NoReset
    /\ replayed = <<>>
    /\ started = 0
    /\ durable = <<>>
    /\ renames = 0
    /\ cvlog = <<>>
    /\ live = NoLive
    /\ collab = {}
    /\ out = NoLosses
    /\ events = <<>>
    /\ fail = ""
    /\ trail = <<>>
    /\ epoch_log = NoEpochLog
    /\ replicas = NoReplicas
    /\ test_pass = NoTestPass

\* Solver.__init__ up to _reset (lines 50-116): nothing is loaded here.
\* No line of it compares what the configured losses and variants need
\* with what it creates.
B_Construct ==
    /\ pc = "b_new"
    /\ models' = [n \in {GENERATOR_KEY} \cup args.model_keys |-> 0]
    /\ optimizers' = [top |-> [k \in TopOptimizerKeys(args) |-> 0],
                      discriminator |->
                        [n \in (IF adversarial_mode(args)
                                   /\ multiple_discriminators_mode(args)
                                   /\ ~joint_disc_optimizers(args)
                                THEN args.discriminator_models ELSE {}) |-> 0]]
    /\ collab' = Collaborators(args)
    /\ pc' = "b_ready"
    /\ UNCHANGED <<args, replicas, test_pass, files, runs, history, best_states, locals, ghosts,
                   live, out, events, fail, trail, epoch_log>>

\* losses = self._get_losses(hr_reprs, pr_reprs) (line 375), the
\* representations carrying 'time' and 'spec'.
B_GetLosses ==
    /\ pc = "b_ready"
    /\ LET r == GetLosses(args, collab, DOMAIN models)
       IN /\ out' = r.losses
          /\ fail' = r.missing
          /\ pc' = IF r.ok THEN "b_losses" ELSE "b_failed"
    /\ events' = <<>>
    /\ trail' = <<[call |-> "_get_losses", models |-> models]>>
    /\ UNCHANGED <<args, replicas, test_pass, files, runs, solver, locals, ghosts, live, collab, epoch_log>>

\* self._optimize(total_generator_loss) (lines 376-382): the sum of no
\* term is the int 0, whose backward() does not exist.
B_Optimize ==
    /\ pc = "b_losses"
    /\ trail' = Append(trail, [call |-> "_optimize", models |-> models])
    /\ IF out.generator = {}
       THEN /\ events' = events \o <<Ev("zero_grad", "optimizer")>>
            /\ fail' = "_optimize"
            /\ pc' = "b_failed"
            /\ UNCHANGED <<models, optimizers>>
       ELSE /\ LET g == Optimize([models |-> models, optimizers |-> optimizers])
               IN models' = g.models /\ optimizers' = g.optimizers
            /\ events' = events \o <<Ev("zero_grad", "optimizer"),
                                     Ev("backward", "generator"),
                                     Ev("step", "optimizer")>>
            /\ pc' = IF adversarial_mode(args) THEN "b_generator" ELSE "b_done"
            /\ fail' = fail
    /\ UNCHANGED <<args, replicas, test_pass, files, runs, history, best_states, locals, ghosts,
                   live, collab, out, epoch_log>>

\* self._optimize_adversarial(losses['discriminator']) (lines 383-384).
B_OptimizeAdversarial ==
    /\ pc = "b_generator"
    /\ trail' = Append(trail, [call |-> "_optimize_adversarial", models |-> models])
    /\ LET r == OptimizeAdversarial(args, [models |-> models, optimizers |-> optimizers],
                                    out.discriminator)
       IN /\ models' = r.models
          /\ optimizers' = r.optimizers
          /\ events' = events \o r.events
          /\ pc' = IF r.ok THEN "b_done" ELSE "b_failed"
          /\ fail' = IF r.ok THEN fail ELSE "_optimize_adversarial"
    /\ UNCHANGED <<args, replicas, test_pass, files, runs, history, best_states, locals, ghosts,
                   live, collab, out, epoch_log>>

\* The rest of the loop body (lines 386-405) and the next batch, if any.
B_BatchEnd ==
    /\ pc = "b_done"
    /\ bi' = bi + 1
    /\ pc' = IF bi + 1 < MaxBatches THEN "b_ready" ELSE "b_end"
    /\ UNCHANGED <<args, replicas, test_pass, files, runs, solver, epoch, best_loss, losses,
                   evaluation_loss, lsd, package, ghosts, aux, epoch_log>>

NextBatch ==
    \/ B_Construct
    \/ B_GetLosses
    \/ B_Optimize
    \/ B_OptimizeAdversarial
    \/ B_BatchEnd

SpecBatch == InitBatch /\ [][NextBatch]_vars

\* ================================================================ claims
Running == pc \notin {"down", "constructed"}

InEpoch == pc \in {"cross_valid", "evaluate", "persist"}

Persisting == pc \in {"dump", "serialize", "save", "rename", "best", "best_save", "best_rename"}

\* C1: _reset chooses its source deterministically: the canonical
\* checkpoint, loaded in full with its history kept, whenever checkpointing
\* is on, the file exists and restart is off, whatever continue_from,
\* continue_best and keep_history say; else the continue_from file with
\* load_best = continue_best and the history kept iff keep_history; else
\* nothing, and the history starts empty.
C1_ResetPrecedence ==
    reset # NoReset =>
      LET canonical == args.checkpoint /\ reset.existed /\ ~args.restart
      IN /\ canonical =>
              /\ reset.load_from = "checkpoint_file"
              /\ ~reset.load_best
              /\ reset.keep_history
              /\ pc = "constructed" => history = reset.loaded.history
         /\ (~canonical /\ args.continue_from) =>
              /\ reset.load_from = "continue_from"
              /\ reset.load_best = args.continue_best
              /\ reset.keep_history = args.keep_history
              /\ pc = "constructed" =>
                   history = IF args.keep_history THEN reset.loaded.history ELSE <<>>
         /\ (~canonical /\ ~args.continue_from) =>
              /\ reset.load_from = ""
              /\ pc = "constructed" => history = <<>>

\* The canonical checkpoint won over a continue_from that asked for the
\* best states and no history.
C1_Witness ==
    /\ pc = "constructed"
    /\ reset.load_from = "checkpoint_file"
    /\ args.continue_from /\ args.continue_best /\ ~args.keep_history
    /\ history # <<>>

FullPackage(pkg) ==
    /\ DOMAIN pkg = {"models", "optimizers", "history", "best_states", "args"}
    /\ DOMAIN pkg.models = ModelNames(args)
    /\ pkg.args = args
    /\ pkg.history # <<>>

\* C2: the file at the canonical path is always absent or one complete
\* package; the path changes only by the rename of a completely written
\* temp file, and a stop of the process never changes it.
C2_CanonicalAtomic ==
    /\ [](/\ checkpoint_file.st \in {"absent", "complete"}
          /\ checkpoint_file.st = "complete" => FullPackage(checkpoint_file.pkg))
    /\ [][/\ checkpoint_file' # checkpoint_file =>
               (pc = "rename" /\ tmp_file.st = "complete" /\ checkpoint_file' = tmp_file)
          /\ pc' = "down" => checkpoint_file' = checkpoint_file]_vars

\* The process stopped between the temp write and the rename: the temp
\* file holds the next package and the canonical file still the previous.
C2_Witness ==
    /\ pc = "down"
    /\ tmp_file.st = "complete"
    /\ checkpoint_file.st = "complete"
    /\ Len(tmp_file.pkg.history) = Len(checkpoint_file.pkg.history) + 1

PhasesOf(r, e) ==
    /\ r.total_loss # None
    /\ (r.valid_evaluation_loss # None) = CrossValidDue(args, e)
    /\ (r.lsd # None) = EvaluateDue(args, e)

\* C3: a process started on the canonical checkpoint holds exactly the
\* records of the epochs whose canonical rename completed and trains next
\* the epoch of that index; a checkpoint is written only for an epoch that
\* ran every phase due, and the epochs of a run are consecutive.
C3_ResumeExact ==
    /\ checkpoint_file.st # "absent" =>
         /\ checkpoint_file.st = "complete"
         /\ checkpoint_file.pkg.history = durable
    /\ (reset.load_from = "checkpoint_file" /\ pc = "constructed") =>
         (reset.ok /\ history = durable)
    /\ (reset.load_from = "checkpoint_file" /\ Running /\ renames = 0) =>
         started = Len(durable)
    /\ (pc = "epoch" \/ InEpoch) => (epoch = Len(history) /\ epoch >= started)
    /\ Persisting => epoch + 1 = Len(history)
    /\ (pc = "epoch" /\ args.checkpoint /\ renames > 0) => history = durable
    /\ pc \in {"serialize", "save", "rename"} =>
         /\ losses # None
         /\ CrossValidDue(args, epoch) => evaluation_loss # None
         /\ EvaluateDue(args, epoch) => lsd # None
    /\ \A i \in 1..Len(durable) : PhasesOf(durable[i], i - 1)

\* A process resumed from the canonical checkpoint renames the checkpoint of
\* the first epoch it trained.
C3_Witness ==
    /\ reset.load_from = "checkpoint_file"
    /\ pc = "rename"
    /\ started >= 1
    /\ epoch = started
    /\ renames = 0

\* C4: after a load with keep_history the in-memory history is the
\* persisted one, the replay logs exactly its records in order and the
\* first epoch trained is len(history); without keep_history the history
\* is empty and training starts at epoch 0.
C4_HistoryReplay ==
    reset.load_from # "" =>
      LET kept == IF reset.keep_history THEN reset.loaded.history ELSE <<>>
      IN /\ pc = "constructed" => history = kept
         /\ Running => (replayed = kept /\ started = Len(kept))
         /\ InEpoch => (epoch >= started /\ (Len(history) = started => epoch = started))

\* A run that kept a loaded history trains its first epoch.
C4_Witness ==
    /\ reset.load_from = "continue_from"
    /\ reset.keep_history
    /\ replayed # <<>>
    /\ pc = "cross_valid"
    /\ epoch = Len(replayed)

LatestArgMin(log) ==
    CHOOSE j \in 1..Len(log) :
      /\ \A k \in 1..Len(log) : log[j].loss <= log[k].loss
      /\ \A k \in (j + 1)..Len(log) : log[k].loss # log[j].loss

\* C5: in a run that started with an empty history, best_states is the
\* snapshot of all models taken at the latest cross-validated epoch whose
\* evaluation loss is the minimum over the cross-validated epochs so far.
C5_BestIsLatestMin ==
    (pc # "down" /\ replayed = <<>> /\ cvlog # <<>>) =>
       best_states = cvlog[LatestArgMin(cvlog)].models

\* A tie: the second cross-validated epoch repeated the first one's loss
\* and its snapshot replaced the older one.
C5_Witness ==
    /\ pc # "down"
    /\ replayed = <<>>
    /\ Len(cvlog) = 2
    /\ cvlog[1].loss = cvlog[2].loss
    /\ best_states = cvlog[2].models
    /\ best_states # cvlog[1].models

Populated(b) == DOMAIN b = ModelNames(args)

\* C6: once best_states is populated it holds a snapshot of every model in
\* every later state of the process, also after a resume from a checkpoint
\* that carries a populated best_states.
C6_PopulatedStays ==
    [][(pc # "down" /\ pc' # "down" /\ Populated(best_states)) => Populated(best_states')]_vars

\* C7: for every optimizer layout, _serialize followed by _load of the
\* written package with load_best false restores every model's parameters
\* and every optimizer's state to the values serialized, and does not fail.
C7_RoundTrip ==
    /\ (pc = "rt_loaded" /\ ~reset.load_best) =>
         (models = live.models /\ optimizers = live.optimizers)
    /\ pc = "rt_failed" => reset.load_best

\* The separate layout, every state differing from a new solver's.
C7_Witness ==
    /\ pc = "rt_loaded"
    /\ ~reset.load_best
    /\ args.layout = "separate"
    /\ \A n \in DOMAIN models : models[n] = 1
    /\ optimizers.top["optimizer"] = 1
    /\ \A n \in DOMAIN optimizers.discriminator : optimizers.discriminator[n] = 1

\* C8: loading with load_best a package _serialize wrote with a populated
\* best_states succeeds, sets every model to its snapshot and loads no
\* optimizer state.
C8_LoadBest ==
    (pc \in {"rt_loaded", "rt_failed"} /\ reset.load_best
     /\ Populated(reset.loaded.best_states)) =>
       /\ pc = "rt_loaded"
       /\ models = reset.loaded.best_states
       /\ optimizers = FreshOptimizers(args)

CollaboratorNames == {"mrstftloss", "perceptual_loss", "melspec_transform"}
                     \cup DiscKinds \cup {"stft_disc"}

\* C9: a collaborator that an enabled loss kind or active variant needs
\* and construction did not create makes the constructor fail, so that no
\* call of _get_losses during a batch fails for a missing collaborator.
C9_NoMidBatchMissing ==
    ~(pc = "b_failed" /\ fail \in CollaboratorNames)

DiscriminatorSteps ==
    {i \in 1..Len(events) : events[i].op = "step" /\ events[i].target # "optimizer"}

\* C10: in adversarial mode, under each policy, _optimize_adversarial
\* called with an empty mapping ends in a fatal error and steps no
\* optimizer; it never returns normally.
C10_EmptyIsFatal ==
    /\ (pc = "b_done" /\ adversarial_mode(args)) => out.discriminator # {}
    /\ (pc = "b_failed" /\ fail = "_optimize_adversarial" /\ out.discriminator = {})
         => DiscriminatorSteps = {}

LossesComputed == pc \in {"b_losses", "b_generator", "b_done"}

\* C11: for every variant, the pass that feeds the discriminator loss
\* takes the detached prediction, the pass that feeds the generator's
\* terms takes the attached prediction, and the target's feature maps that
\* enter the generator's terms are detached.
C11_Detachment ==
    LossesComputed =>
      \A d \in out.discriminator :
        /\ \A p \in PassesOf(d) :
             /\ p.feeds = "discriminator" => p.prediction # "attached"
             /\ p.feeds = "generator" => (p.prediction # "detached" /\ p.real # "attached")
        /\ \A m \in ModelsOf(d) :
             /\ \E p \in PassesOf(d) :
                  p.model = m /\ p.feeds = "discriminator" /\ p.prediction = "detached"
             /\ \E p \in PassesOf(d) :
                  p.model = m /\ p.feeds = "generator" /\ p.prediction = "attached"

\* The losses of a hinge variant and of a two-model variant were computed.
C11_Witness ==
    /\ pc = "b_losses"
    /\ out.discriminator = {"hifi", "stft"}

BackwardEvents == {i \in 1..Len(events) : events[i].op = "backward"}

\* C12: the backward of a discriminator loss deposits no gradient in the
\* generator's parameters; the backward of the generator loss deposits
\* gradient in the generator's parameters and in no discriminator's.
C12_GradientRouting ==
    \A i \in BackwardEvents :
      LET into == BackwardInto(args, out, events[i].target)
      IN IF events[i].target = "generator"
         THEN into = {GENERATOR_KEY}
         ELSE GENERATOR_KEY \notin into

Calls == [i \in 1..Len(trail) |-> trail[i].call]

GeneratorEvents ==
    <<Ev("zero_grad", "optimizer"), Ev("backward", "generator"), Ev("step", "optimizer")>>

\* C13: in a training batch of adversarial mode all loss terms are
\* computed from the parameters as they were before any update of the
\* batch; then the generator optimizer is zero-graded, the summed generator
\* loss backpropagated and the generator stepped; only then, and exactly
\* once, _optimize_adversarial is called.
C13_BatchOrder ==
    adversarial_mode(args) =>
      /\ pc = "b_losses" =>
           (Calls = <<"_get_losses">> /\ trail[1].models = models /\ events = <<>>)
      /\ pc = "b_generator" =>
           /\ Calls = <<"_get_losses", "_optimize">>
           /\ trail[2].models = trail[1].models
           /\ events = GeneratorEvents
           /\ models[GENERATOR_KEY] = trail[1].models[GENERATOR_KEY] + 1
           /\ \A n \in DOMAIN models \ {GENERATOR_KEY} : models[n] = trail[1].models[n]
      /\ (pc = "b_done" \/ (pc = "b_failed" /\ fail = "_optimize_adversarial")) =>
           /\ Calls = <<"_get_losses", "_optimize", "_optimize_adversarial">>
           /\ SubSeq(events, 1, 3) = GeneratorEvents
           /\ trail[3].models[GENERATOR_KEY] = trail[1].models[GENERATOR_KEY] + 1
           /\ \A n \in DOMAIN models \ {GENERATOR_KEY} : trail[3].models[n] = trail[1].models[n]
           /\ \A i \in 4..Len(events) : events[i].target # "optimizer"

\* A batch with two discriminators, each stepped after the generator.
C13_Witness ==
    /\ pc = "b_done"
    /\ args.layout = "separate"
    /\ Cardinality(out.discriminator) = 2
    /\ Len(events) = 9

AdversarialEvents == SubSeq(events, 4, Len(events))

\* C14: a call of _optimize_adversarial with a non-empty mapping makes,
\* in single mode, one zero-grad, one backward of the sole term and one
\* step of the sole discriminator optimizer; with a joint optimizer one
\* zero-grad, one backward of the sum and one step; with separate
\* optimizers, for each term in turn, zero-grad, backward of that term and
\* step of the optimizer of the same name, and no other optimizer is
\* touched.
C14_PolicySteps ==
    (pc = "b_done" /\ adversarial_mode(args) /\ out.discriminator # {}) =>
      /\ optimizers.top["optimizer"] = bi + 1
      /\ args.layout = "single" =>
           /\ \E d \in out.discriminator :
                AdversarialEvents = <<Ev("zero_grad", "disc_optimizer"), Ev("backward", d),
                                      Ev("step", "disc_optimizer")>>
           /\ Cardinality(out.discriminator) = 1
           /\ optimizers.top["disc_optimizer"] = bi + 1
      /\ args.layout = "joint" =>
           /\ AdversarialEvents = <<Ev("zero_grad", "disc_optimizer"), Ev("backward", "sum"),
                                    Ev("step", "disc_optimizer")>>
           /\ optimizers.top["disc_optimizer"] = bi + 1
      /\ args.layout = "separate" =>
           /\ Len(AdversarialEvents) = 3 * Cardinality(out.discriminator)
           /\ \A d \in out.discriminator :
                /\ \E k \in 0..(Cardinality(out.discriminator) - 1) :
                     SubSeq(AdversarialEvents, 3 * k + 1, 3 * k + 3)
                       = <<Ev("zero_grad", d), Ev("backward", d), Ev("step", d)>>
                /\ optimizers.discriminator[d] = bi + 1
           /\ \A i \in 1..Len(AdversarialEvents) :
                AdversarialEvents[i].target \in out.discriminator

\* Two terms, each with its own optimizer, after the call.
C14_Witness ==
    /\ pc = "b_done"
    /\ args.layout = "separate"
    /\ out.discriminator = {"mpd", "msd"}
    /\ optimizers.discriminator["mpd"] = 1
    /\ optimizers.discriminator["msd"] = 1

DisjointParameters(names) ==
    \A d, e \in names : d # e => ModelsOf(d) \cap ModelsOf(e) = {}

\* The optimizer calls of this batch had the policy been p.
EventsUnder(p) ==
    LET a == [args EXCEPT !.layout = p]
        st == [models |-> trail[3].models,
               optimizers |-> [top |-> [k \in {"optimizer", "disc_optimizer"} |-> 0],
                               discriminator |-> [n \in out.discriminator |-> 0]]]
    IN GeneratorEvents \o OptimizeAdversarial(a, st, out.discriminator).events

\* C15: over discriminators with disjoint parameters and the same loss
\* terms, each discriminator parameter holds at the step of its optimizer
\* the same gradient under the joint policy as under the separate policy:
\* the sum of the terms that reach it, which is its own term.
C15_JointEqualsSeparate ==
    (pc = "b_done" /\ multiple_discriminators_mode(args)
     /\ out.discriminator # {} /\ DisjointParameters(out.discriminator)) =>
      /\ events = EventsUnder(args.layout)
      /\ \A d \in out.discriminator : \A m \in ModelsOf(d) :
           LET joint == GradsAtStep(args, out, DOMAIN models, EventsUnder("joint"),
                                    "disc_optimizer")[m]
               separate == GradsAtStep(args, out, DOMAIN models, EventsUnder("separate"), d)[m]
           IN /\ joint = separate
              /\ joint = [t \in Terms |-> IF t = d THEN 1 ELSE 0]

\* Two discriminators of disjoint parameters, stepped by the joint optimizer.
C15_Witness ==
    /\ pc = "b_done"
    /\ args.layout = "joint"
    /\ out.discriminator = {"melgan", "stft"}
    /\ out.generator # {}

PhaseOrder(a, e) ==
    <<"Train">>
    \o (IF CrossValidDue(a, e) THEN <<"CrossValidate">> ELSE <<>>)
    \o (IF EvaluateDue(a, e) THEN <<"Evaluate">> ELSE <<>>)
    \o <<"Persist">>

IsPrefix(p, q) == Len(p) <= Len(q) /\ SubSeq(q, 1, Len(p)) = p

PhasesSeen == {epoch_log.phases[i] : i \in 1..Len(epoch_log.phases)}

\* C16: the phases of an epoch occur in the order Train, CrossValidate
\* (if due), Evaluate (if due), Persist, each at most once; while epoch e
\* is between Train and Persist the history holds exactly the e records of
\* the epochs before it, Persist appends exactly one, and the next epoch
\* is entered only with Persist finished: the history file rewritten
\* whole and, with checkpointing, the checkpoint replaced by one holding
\* the same history.
C16_PhaseOrder ==
    /\ pc = "cross_valid" => epoch_log.phases = <<"Train">>
    /\ pc = "evaluate" =>
         /\ epoch_log.phases \in {<<"Train">>, <<"Train", "CrossValidate">>}
         /\ IsPrefix(epoch_log.phases, PhaseOrder(args, epoch))
         /\ CrossValidDue(args, epoch) => "CrossValidate" \in PhasesSeen
    /\ pc = "persist" => Append(epoch_log.phases, "Persist") = PhaseOrder(args, epoch)
    /\ InEpoch => Len(history) = epoch
    /\ Persisting =>
         /\ epoch_log.phases = PhaseOrder(args, epoch)
         /\ Len(history) = epoch + 1
    /\ (pc = "epoch" /\ epoch = started) => epoch_log.phases = <<>>
    /\ (pc = "epoch" /\ epoch > started) =>
         /\ epoch_log.phases = PhaseOrder(args, epoch - 1)
         /\ Len(history) = epoch
         /\ history_file = [st |-> "complete", content |-> history]
         /\ args.checkpoint =>
              /\ checkpoint_file.st = "complete"
              /\ checkpoint_file.pkg.history = history

C16_Witness ==
    /\ pc = "epoch"
    /\ runs = MaxRuns
    /\ epoch = MaxEpochs
    /\ started < epoch
    /\ args.checkpoint
    /\ epoch_log.phases = <<"Train", "CrossValidate", "Evaluate", "Persist">>

\* C17: cross-validation runs on epoch e exactly when cross_valid is set,
\* a validation loader exists and (e+1) is a multiple of cross_valid_every
\* or e is the final epoch; Evaluate runs exactly when a test loader exists
\* and (e+1) is a multiple of eval_every or e is the final epoch; so both
\* run on the final epoch whenever their loader exists.
C17_Cadence ==
    LET final == MaxEpochs - 1
        cv == /\ args.cross_valid
              /\ args.cv_loader
              /\ ((epoch + 1) % args.cross_valid_every = 0 \/ epoch = final)
        ev == /\ args.tt_loader
              /\ ((epoch + 1) % args.eval_every = 0 \/ epoch = final)
    IN /\ (pc \in {"evaluate", "persist", "raised"} \/ Persisting) =>
            ("CrossValidate" \in PhasesSeen <=> cv)
       /\ (pc = "persist" \/ Persisting) => ("Evaluate" \in PhasesSeen <=> ev)
       /\ pc = "raised" => ("Evaluate" \in PhasesSeen => ev)
       /\ (pc = "persist" /\ epoch = final) =>
            /\ (args.cross_valid /\ args.cv_loader) => "CrossValidate" \in PhasesSeen
            /\ args.tt_loader => "Evaluate" \in PhasesSeen

C17_Witness ==
    /\ pc = "persist"
    /\ epoch = MaxEpochs - 1
    /\ (epoch + 1) % args.cross_valid_every # 0
    /\ (epoch + 1) % args.eval_every # 0
    /\ epoch_log.phases = <<"Train", "CrossValidate", "Evaluate">>

C19_SwapRestores ==
    [][(pc = "evaluate" /\ "Evaluate" \in {epoch_log'.phases[i] : i \in 1..Len(epoch_log'.phases)}) =>
         /\ pc' \in {"persist", "raised"}
         /\ epoch_log'.swap.entered = models[GENERATOR_KEY]
         /\ epoch_log'.swap.left = epoch_log'.swap.entered
         /\ models' = models
         /\ best_states' = best_states]_vars

C19_Witness ==
    /\ pc = "raised"
    /\ "Evaluate" \in PhasesSeen
    /\ args.evaluate_on_best
    /\ best_states # EmptyMap
    /\ epoch_log.swap.inside = best_states[GENERATOR_KEY]
    /\ epoch_log.swap.inside # epoch_log.swap.entered
    /\ models[GENERATOR_KEY] = epoch_log.swap.entered

\* The best snapshot of the generator on record: the one taken in this
\* run, else the one in the checkpoint the run resumed from.
RecordedBest ==
    IF best_states # EmptyMap THEN best_states[GENERATOR_KEY]
    ELSE IF reset.loaded.best_states # EmptyMap
         THEN reset.loaded.best_states[GENERATOR_KEY]
         ELSE None

\* C20: when Evaluate has run with evaluate_on_best set and a best
\* snapshot on record, the outputs whose metrics are recorded for the
\* epoch were produced by the generator holding that snapshot; with
\* evaluate_on_best not set they were produced with the live parameters.
C20_MeasuredOnChosen ==
    ((pc = "persist" \/ Persisting) /\ "Evaluate" \in PhasesSeen) =>
        /\ (args.evaluate_on_best /\ RecordedBest # None) =>
             epoch_log.measured = RecordedBest
        /\ ~args.evaluate_on_best =>
             epoch_log.measured = models[GENERATOR_KEY]

\* C21: of the replicas running train() side by side only the one of
\* rank 0 writes the history file, the checkpoint and its temporary file
\* and the best-model files; no file has two writers.
C21_OneWriter ==
    \A f \in DOMAIN replicas.writers :
        /\ replicas.writers[f] \subseteq {0}
        /\ Cardinality(replicas.writers[f]) <= 1

C21_Witness ==
    /\ \A f \in PersistFiles : replicas.writers[f] = {0}
    /\ \A r \in Ranks : replicas.proc[r].epoch = MaxEpochs

\* C22: with only_adversarial_loss set and only_features_loss not, the
\* generator mapping has for every active variant its adversarial entry,
\* no 'features_<variant>' entry, and no feature matching summed into the
\* adversarial entry.
C22_OnlyAdversarial ==
    (LossesComputed /\ args.only_adversarial_loss /\ ~args.only_features_loss) =>
        \A d \in ActiveVariants(args) :
            /\ ("adversarial_" \o d) \in out.generator
            /\ ("features_" \o d) \notin out.generator
            /\ "features" \notin out.parts["adversarial_" \o d]

\* C23: for hifi and mbd the mel-spectrogram L1 term is part of the
\* variant's generator entry whatever only_adversarial_loss and
\* only_features_loss are.
C23_MelAlways ==
    LossesComputed =>
        \A d \in ActiveVariants(args) \cap {"hifi", "mbd"} :
            /\ ("adversarial_" \o d) \in out.generator
            /\ "mel" \in out.parts["adversarial_" \o d]

\* C24: the discriminator mapping of every LossResult has exactly the
\* active variants' names as its keys: none when adversarial mode is off,
\* and then no discriminator optimizer is called; at most one in single
\* mode.
C24_DiscriminatorEntries ==
    LossesComputed =>
        /\ out.discriminator =
             (CASE args.layout = "none" -> {}
                [] args.layout = "single" -> {args.discriminator_model}
                [] OTHER -> args.discriminator_models)
        /\ args.layout = "none" =>
             /\ out.discriminator = {}
             /\ \A i \in 1..Len(events) :
                  events[i].op \in {"zero_grad", "step"} => events[i].target = "optimizer"
        /\ args.layout = "single" => Cardinality(out.discriminator) <= 1

C24_Witness ==
    /\ pc = "b_done"
    /\ args.layout = "joint"
    /\ out.discriminator = {"hifi", "stft"}
    /\ Len(events) > 3

\* C25: once the Persist step of an epoch is over, the history file
\* holds the whole history in order, one record per completed epoch, those
\* loaded at the start included, and the checkpoint written in that step
\* holds the same history.
C25_HistoryFileWhole ==
    ((pc = "epoch" /\ epoch > started) \/ (pc = "done" /\ MaxEpochs > started)) =>
        /\ history_file.st = "complete"
        /\ history_file.content = history
        /\ Len(history_file.content) = epoch
        /\ IsPrefix(replayed, history_file.content)
        /\ args.checkpoint =>
             /\ checkpoint_file.st = "complete"
             /\ checkpoint_file.pkg.history = history_file.content

C25_Witness ==
    /\ pc = "done"
    /\ args.checkpoint
    /\ started > 0
    /\ replayed # <<>>
    /\ Len(history_file.content) = MaxEpochs
    /\ checkpoint_file.pkg.history = history_file.content

EpochsToRun == IF MaxEpochs > started THEN MaxEpochs - started ELSE 0

\* C26: at every epoch boundary the history has one record per
\* completed epoch, the loaded ones and the ones this train() ran, which
\* are the epochs len(history at start), ... in increasing order, one
\* record each; a train() that is not cut short ends, having run exactly
\* max(0, epochs - len(history at start)) epochs.
C26_EpochCount ==
    /\ []((pc \in {"epoch", "done"}) =>
            /\ Len(history) = Len(replayed) + Len(epoch_log.ran)
            /\ started = Len(replayed)
            /\ \A i \in 1..Len(epoch_log.ran) : epoch_log.ran[i] = started + i - 1
            /\ Len(epoch_log.ran) <= EpochsToRun
            /\ pc = "done" => Len(epoch_log.ran) = EpochsToRun)
    /\ []<>(pc \in {"done", "down"})

C26_Witness ==
    /\ pc = "done"
    /\ started = 1
    /\ epoch_log.ran = <<1>>
    /\ Len(history) = MaxEpochs

\* The valid evaluation losses of the first n records of h.
ValidLossesUpTo(h, n) ==
    {h[i].valid_evaluation_loss : i \in {k \in 1..n : h[k].valid_evaluation_loss # None}}

\* C27: a history record that carries best_loss has it equal to the
\* least valid evaluation loss of the records up to and including it, the
\* loaded ones included; so the best_loss values along the history never
\* increase.
C27_BestLossIsMin ==
    /\ \A i \in 1..Len(history) :
         history[i].best_loss # None =>
            /\ history[i].best_loss \in ValidLossesUpTo(history, i)
            /\ \A v \in ValidLossesUpTo(history, i) : history[i].best_loss <= v
    /\ \A i, j \in 1..Len(history) :
         (i < j /\ history[i].best_loss # None /\ history[j].best_loss # None) =>
            history[j].best_loss <= history[i].best_loss

C27_Witness ==
    /\ pc = "done"
    /\ started > 0
    /\ Len(history) = MaxEpochs
    /\ \A i \in 1..Len(history) : history[i].best_loss # None

\* C28: a cross-validation pass, on the validation set or on the test
\* set, calls no optimizer and leaves every model's parameters, every
\* optimizer's state and the history as they were.
C28_CrossValidReadsOnly ==
    [][(pc = "cross_valid" /\ pc' = "evaluate" /\ CrossValidDue(args, epoch)) =>
         /\ epoch_log'.cv_optimized = 0
         /\ models' = models
         /\ optimizers' = optimizers
         /\ history' = history]_vars

C28_Witness ==
    /\ pc = "evaluate"
    /\ "CrossValidate" \in PhasesSeen
    /\ args.valid_equals_test
    /\ args.layout = "separate"
    /\ epoch = MaxEpochs - 1
    /\ models[GENERATOR_KEY] > 0

\* The position in the batch's optimizer calls of the call op on target
\* t, 0 when it was not made.
CallAt(op, t) ==
    IF \E k \in 1..Len(events) : events[k] = Ev(op, t)
    THEN CHOOSE k \in 1..Len(events) : events[k] = Ev(op, t)
    ELSE 0

\* The discriminator optimizers stepped in the batch.
SteppedDiscOptimizers ==
    {events[k].target : k \in {i \in 1..Len(events) :
                                 events[i].op = "step" /\ events[i].target # "optimizer"}}

\* The loss terms routed to the discriminator optimizer t.
RoutedTo(t) ==
    CASE args.layout = "separate" -> {t}
      [] args.layout = "joint" -> out.discriminator
      [] OTHER -> {SelectSeq(DiscOrder, LAMBDA x : x \in out.discriminator)[1]}

\* C29: when a discriminator optimizer is stepped, the parameters it
\* holds carry gradient of the discriminator loss routed to it only, one
\* backward pass of each term: its zero_grad comes after the generator's
\* backward and before the discriminator backward, so what the generator's
\* backward left in discriminator parameters is cleared before the step.
C29_OwnGradientOnly ==
    (pc = "b_done" /\ adversarial_mode(args)) =>
      \A t \in SteppedDiscOptimizers :
        /\ CallAt("backward", "generator") < CallAt("zero_grad", t)
        /\ \E k \in (CallAt("zero_grad", t) + 1)..(CallAt("step", t) - 1) :
             /\ events[k].op = "backward"
             /\ events[k].target \in RoutedTo(t) \cup {"sum"}
        /\ \A m \in Owned(t, DOMAIN models) \cap DOMAIN models :
             LET g == GradsAtStep(args, out, DOMAIN models, events, t)[m]
             IN /\ g[GENERATOR_KEY] = 0
                /\ \A x \in Terms : g[x] > 0 => (x \in RoutedTo(t) /\ g[x] = 1)

\* The generator's backward left gradient in the discriminator msd, and
\* the single discriminator optimizer was stepped afterwards.
C29_Witness ==
    /\ pc = "b_done"
    /\ args.layout = "single"
    /\ out.discriminator = {"msd"}
    /\ "msd" \in DOMAIN models
    /\ GradsAfter(args, out, [m \in DOMAIN models |-> [x \in Terms |-> 0]],
                  SubSeq(events, 1, CallAt("zero_grad", "disc_optimizer") - 1)
                 )["msd"][GENERATOR_KEY] = 1
    /\ SteppedDiscOptimizers = {"disc_optimizer"}

\* C30: every history record of an epoch on which cross-validation ran
\* has the keys evaluation_loss and best_loss, whatever the evaluation
\* loss was, 0 included.
C30_KeysPresent ==
    \A i \in 1..Len(history) :
        history[i].valid_evaluation_loss # None =>
            /\ history[i].evaluation_loss # None
            /\ history[i].best_loss # None

\* C31: _get_valid_losses_on_test_data called with enhance true returns a
\* list with exactly one entry per processed test item, in processing
\* order, each entry the whole stem under which that item's outputs were
\* saved; called with enhance false it returns None in the list's place.
C31_FilenameList ==
    pc = "returned" =>
        IF test_pass.enhance
        THEN /\ ~test_pass.returned.is_none
             /\ Len(test_pass.returned.list) = Len(test_pass.data_loader)
             /\ test_pass.returned.list = test_pass.saved
        ELSE test_pass.returned.is_none

====
